---- MODULE Spec2Model ----
(***************************************************************************)
(* A model of the streaming ZIP decoder of hymkor/uncozip (main.go):       *)
(* the signature scanner seekToSignature, the entry iterator               *)
(* CorruptedZip.scan/Scan/Close/Body, the late-bound accessors and the      *)
(* background descriptor reader that feeds the body through an io.Pipe.     *)
(***************************************************************************)
EXTENDS Integers, Sequences, FiniteSets, TLC

(***************************************************************************)
(* Program constants (main.go:21-31, 96-100, 119-123)                      *)
(***************************************************************************)
Store == 0
Deflate == 8
bitEncrypted == 1
bitDataDescriptorUsed == 8
bitEncodedUTF8 == 2048
sigSize == 4
dataDescriptorSize == 12
max == 100
min == sigSize + dataDescriptorSize + sigSize
headerSize == 26
bufioSize == 4096

sigLocalFileHeader == <<80, 75, 3, 4>>
sigCentralDirectoryHeader == <<80, 75, 1, 2>>
sigDataDescriptor == <<80, 75, 7, 8>>

(***************************************************************************)
(* Byte-sequence helpers: Go slices, bytes.HasSuffix, little-endian fields *)
(***************************************************************************)
Min2(a, b) == IF a < b THEN a ELSE b

\* F(v) with v evaluated once
With(v, F(_)) == CHOOSE y \in {F(x) : x \in {v}} : TRUE

\* s[:n]
Take(s, n) == SubSeq(s, 1, n)
\* s[n:]
Drop(s, n) == SubSeq(s, n + 1, Len(s))
\* s[from : from+n] clipped to the end of s (0-based from)
Slice(s, from, n) == SubSeq(s, from + 1, Min2(from + n, Len(s)))

HasSuffix(s, suffix) ==
    /\ Len(s) >= Len(suffix)
    /\ SubSeq(s, Len(s) - Len(suffix) + 1, Len(s)) = suffix

\* binary.LittleEndian: the unsigned value of n bytes starting at 0-based off
LE(s, off, n) ==
    LET RECURSIVE val(_)
        val(i) == IF i = n THEN 0 ELSE s[off + i + 1] + 256 * val(i + 1)
    IN val(0)

\* binary.Write little-endian encoding of v in n bytes
PutLE(v, n) == [i \in 1..n |-> (v \div (256 ^ (i - 1))) % 256]

(***************************************************************************)
(* checkDataDescriptor (main.go:106-117): the 12 bytes that precede the    *)
(* last 4 bytes of the window, or nil when the window is too short.         *)
(***************************************************************************)
\* 32- and 64-bit fields are kept as their little-endian bytes, so that no value
\* is cut to the width of the integers of TLC.
Zero4 == <<0, 0, 0, 0>>
NilDD == [isNil |-> TRUE, CRC32 |-> Zero4, CompressedSize |-> Zero4,
          UncompressedSize |-> Zero4]

\* uint32 field f, as Go's int(f), equals the int v
EqInt(f, v) == v >= 0 /\ f = PutLE(v, 4)

checkDataDescriptor(buf) ==
    LET start == Len(buf) - sigSize - dataDescriptorSize
    IN IF start < 0 THEN NilDD
       ELSE [isNil |-> FALSE,
             CRC32 |-> Slice(buf, start, 4),
             CompressedSize |-> Slice(buf, start + 4, 4),
             UncompressedSize |-> Slice(buf, start + 8, 4)]

(***************************************************************************)
(* seekToSignature (main.go:119-180), one iteration of its loop.           *)
(* st = [buffer, count]; the result says what the iteration wrote to w      *)
(* (wrote/out) and whether the function returned (done, hasNext, dd).       *)
(***************************************************************************)
SeekInit == [buffer |-> <<>>, count |-> 0]

\* SeekMatch that accepts any descriptor-sized run before the signature: the
\* size tests are dropped
SeekMatchAnySize(buf, cnt) ==
    LET dd == checkDataDescriptor(buf)
    IN IF dd.isNil THEN [hit |-> FALSE, keep |-> 0, dd |-> NilDD]
       ELSE [hit |-> TRUE, keep |-> Len(buf) - sigSize - dataDescriptorSize, dd |-> dd]

\* SeekMatch that leaves the descriptor's own signature in the payload
SeekMatchKeepsSignature(buf, cnt) ==
    LET dd == checkDataDescriptor(buf)
        plain == Len(buf) - sigSize - dataDescriptorSize
    IN IF dd.isNil THEN [hit |-> FALSE, keep |-> 0, dd |-> NilDD]
       ELSE IF EqInt(dd.CompressedSize, cnt - sigSize - dataDescriptorSize)
            THEN [hit |-> TRUE, keep |-> plain, dd |-> dd]
       ELSE IF /\ EqInt(dd.CompressedSize, cnt - sigSize - dataDescriptorSize - sigSize)
               /\ HasSuffix(Take(buf, plain), sigDataDescriptor)
            THEN [hit |-> TRUE, keep |-> plain, dd |-> dd]
       ELSE [hit |-> FALSE, keep |-> 0, dd |-> NilDD]

\* the two size tests of one case of the switch (main.go:139-153 / 157-171)
SeekMatch(buf, cnt) ==
    LET dd == checkDataDescriptor(buf)
        plain == Len(buf) - sigSize - dataDescriptorSize
    IN IF dd.isNil THEN [hit |-> FALSE, keep |-> 0, dd |-> NilDD]
       ELSE IF EqInt(dd.CompressedSize, cnt - sigSize - dataDescriptorSize)
            THEN [hit |-> TRUE, keep |-> plain, dd |-> dd]
       ELSE IF /\ EqInt(dd.CompressedSize, cnt - sigSize - dataDescriptorSize - sigSize)
               /\ HasSuffix(Take(buf, plain), sigDataDescriptor)
            THEN [hit |-> TRUE, keep |-> plain - sigSize, dd |-> dd]
       ELSE [hit |-> FALSE, keep |-> 0, dd |-> NilDD]

\* SeekByte that writes the whole of a full window and keeps nothing
SeekByteFlushAll(st, ch) ==
    LET buf == Append(st.buffer, ch)
        cnt == st.count + 1
        isLocal == ch = sigLocalFileHeader[sigSize] /\ HasSuffix(buf, sigLocalFileHeader)
        isCentral == ch = sigCentralDirectoryHeader[sigSize]
                        /\ HasSuffix(buf, sigCentralDirectoryHeader)
        m == IF isLocal \/ isCentral THEN SeekMatch(buf, cnt)
             ELSE [hit |-> FALSE, keep |-> 0, dd |-> NilDD]
    IN IF m.hit
       THEN [buffer |-> buf, count |-> cnt, wrote |-> TRUE, out |-> Take(buf, m.keep),
             done |-> TRUE, hasNext |-> isLocal, dd |-> m.dd, err |-> "nil"]
       ELSE IF Len(buf) >= max
       THEN [buffer |-> <<>>, count |-> cnt, wrote |-> TRUE, out |-> buf,
             done |-> FALSE, hasNext |-> FALSE, dd |-> NilDD, err |-> "nil"]
       ELSE [buffer |-> buf, count |-> cnt, wrote |-> FALSE, out |-> <<>>,
             done |-> FALSE, hasNext |-> FALSE, dd |-> NilDD, err |-> "nil"]

\* r.ReadByte() returned ch (main.go:133-179)
SeekByte(st, ch) ==
    LET buf == Append(st.buffer, ch)
        cnt == st.count + 1
        isLocal == ch = sigLocalFileHeader[sigSize] /\ HasSuffix(buf, sigLocalFileHeader)
        isCentral == ch = sigCentralDirectoryHeader[sigSize]
                        /\ HasSuffix(buf, sigCentralDirectoryHeader)
        m == IF isLocal \/ isCentral THEN SeekMatch(buf, cnt)
             ELSE [hit |-> FALSE, keep |-> 0, dd |-> NilDD]
    IN IF m.hit
       THEN [buffer |-> buf, count |-> cnt, wrote |-> TRUE, out |-> Take(buf, m.keep),
             done |-> TRUE, hasNext |-> isLocal, dd |-> m.dd, err |-> "nil"]
       ELSE IF Len(buf) >= max
       THEN [buffer |-> Drop(buf, Len(buf) - min), count |-> cnt, wrote |-> TRUE,
             out |-> Take(buf, Len(buf) - min),
             done |-> FALSE, hasNext |-> FALSE, dd |-> NilDD, err |-> "nil"]
       ELSE [buffer |-> buf, count |-> cnt, wrote |-> FALSE, out |-> <<>>,
             done |-> FALSE, hasNext |-> FALSE, dd |-> NilDD, err |-> "nil"]

\* SeekFail that returns without writing the window
SeekFailNoFlush(st, e) ==
    [buffer |-> st.buffer, count |-> st.count, wrote |-> TRUE, out |-> <<>>,
     done |-> TRUE, hasNext |-> FALSE, dd |-> NilDD, err |-> e]

\* r.ReadByte() returned an error (main.go:129-132)
SeekFail(st, e) ==
    [buffer |-> st.buffer, count |-> st.count, wrote |-> TRUE, out |-> st.buffer,
     done |-> TRUE, hasNext |-> FALSE, dd |-> NilDD, err |-> e]

(***************************************************************************)
(* State                                                                   *)
(***************************************************************************)
VARIABLES
    src,      \* the bytes of the underlying stream
    pos,      \* number of bytes consumed from cz.br
    sk,       \* seekToSignature's locals: [buffer, count]
    seekRes,  \* what seekToSignature returned: [done, hasNext, dd, err]
    sink,     \* the bytes that reached the reading side of w, in order
    seekIn,   \* how the stream given to the scanner alone was put together
    arch,     \* how the archive was put together: [entries, tail, cut]
    cz,       \* the fields of CorruptedZip
    lz,       \* the lazyReadResult of the current entry: [once, value]
    pipe,     \* the io.Pipe of the current entry
    prod,     \* the background goroutine: [pc, n]
    pc,       \* where the caller is: "idle" or inside a call
    call,     \* the call in progress and its locals
    body,     \* the reader handed out by Body()
    obs       \* what the caller has seen so far; reg and ran are the closers that
              \* were registered when Close() was entered and those it has called,
              \* seen the results that the calls of Value() of the entry returned

vars == <<src, pos, sk, seekRes, sink, seekIn, arch, cz, lz, pipe, prod, pc, call,
          body, obs>>

NoSeekRes == [done |-> FALSE, hasNext |-> FALSE, dd |-> NilDD, err |-> "nil"]

SeekResOf(r) == [done |-> r.done, hasNext |-> r.hasNext, dd |-> r.dd, err |-> r.err]

(***************************************************************************)
(* seekToSignature run from the current stream position up to its next     *)
(* w.Write (the only point where it can wait for the reader of w), and up   *)
(* to its return when w never blocks (io.Discard, main.go:572).             *)
(***************************************************************************)
SeekState(r) == [buffer |-> r.buffer, count |-> r.count]

\* n >= 1 iterations of the loop from position lo, or fewer when one of them
\* writes; the range is halved so that the evaluation stays shallow
RECURSIVE SeekRange(_, _, _)
SeekRange(st, lo, n) ==
    IF n = 1 THEN [r |-> SeekByte(st, src[lo + 1]), pos |-> lo + 1]
    ELSE With(SeekRange(st, lo, n \div 2),
              LAMBDA a : IF a.r.wrote THEN a
                         ELSE SeekRange(SeekState(a.r), a.pos, n - (n \div 2)))

RECURSIVE SeekUntilWrite(_, _)
SeekUntilWrite(st, p) ==
    IF p >= Len(src) THEN [r |-> SeekFail(st, "EOF"), pos |-> p]
    ELSE With(SeekRange(st, p, Min2(max, Len(src) - p)),
              LAMBDA a : IF a.r.wrote THEN a
                         ELSE SeekUntilWrite(SeekState(a.r), a.pos))

RECURSIVE SeekToEnd(_, _)
SeekToEnd(st, p) ==
    With(SeekUntilWrite(st, p),
         LAMBDA x : IF x.r.done THEN x ELSE SeekToEnd(SeekState(x.r), x.pos))

(***************************************************************************)
(* Reading cz.br                                                           *)
(***************************************************************************)
\* io.ReadFull of n bytes at position p through readers that allow lim more bytes
ReadFullLim(p, lim, n) ==
    LET avail == Min2(lim, Len(src) - p)
    IN IF n <= avail THEN [err |-> "nil", data |-> Slice(src, p, n), pos |-> p + n]
       ELSE IF avail <= 0 THEN [err |-> "EOF", data |-> <<>>, pos |-> p]
       ELSE [err |-> "ErrUnexpectedEOF", data |-> Slice(src, p, avail), pos |-> p + avail]

ReadFull(p, n) == ReadFullLim(p, Len(src), n)

HasBit(v, mask) == (v \div mask) % 2 = 1

\* a size of 8 bytes as a number of stream bytes; anything beyond Huge is Huge,
\* which no stream of the model reaches
Huge == 1000000
IsNegInt64(b) == b[8] >= 128
ByteCount(b) ==
    IF IsNegInt64(b) THEN 0 - 1
    ELSE IF \E i \in 4..8 : b[i] # 0 THEN Huge
    ELSE Min2(Huge, LE(b, 0, 3))

\* uint64(x) of a 32-bit field
U64(b4) == b4 \o Zero4

(***************************************************************************)
(* _LocalFileHeader (main.go:38-87)                                        *)
(***************************************************************************)
ZeroHeader ==
    [RequiredVersion |-> 0, Bits |-> 0, Method |-> 0, ModifiedTime |-> 0,
     ModifiedDate |-> 0, CRC32 |-> Zero4, CompressedSize |-> Zero4,
     UncompressedSize |-> Zero4, FilenameLength |-> 0, ExtendFieldSize |-> 0]

DecodeHeader(b) ==
    [RequiredVersion |-> LE(b, 0, 2), Bits |-> LE(b, 2, 2), Method |-> LE(b, 4, 2),
     ModifiedTime |-> LE(b, 6, 2), ModifiedDate |-> LE(b, 8, 2),
     CRC32 |-> Slice(b, 10, 4), CompressedSize |-> Slice(b, 14, 4),
     UncompressedSize |-> Slice(b, 18, 4),
     FilenameLength |-> LE(b, 22, 2), ExtendFieldSize |-> LE(b, 24, 2)]

\* unpackBits and time/date/stamp: the fields handed to time.Date
stamp(h) ==
    [kind |-> "dos",
     year |-> 1980 + ((h.ModifiedDate \div 512) % 128),
     month |-> (h.ModifiedDate \div 32) % 16,
     day |-> h.ModifiedDate % 32,
     hour |-> (h.ModifiedTime \div 2048) % 32,
     min |-> (h.ModifiedTime \div 32) % 64,
     sec |-> (h.ModifiedTime % 32) * 2]

ZeroTime == [kind |-> "zero"]
UnixTime(b4) == [kind |-> "unix", sec |-> b4]

(***************************************************************************)
(* New (main.go:327-336)                                                   *)
(***************************************************************************)
Unset == [kind |-> "unset", val |-> <<>>]
FromHeader == [kind |-> "hdr", val |-> <<>>]
Const(v) == [kind |-> "const", val |-> v]
Lazy == [kind |-> "lazy", val |-> <<>>]

\* cz.rawFileData of an entry that is not encrypted has no transform.Reader; the
\* fields are those of the reader (what it has read of its source and not yet
\* transformed, the error of its source, the output not yet returned) and of its
\* decrypter, with the number of getter calls and of passwords tried
NoTransform ==
    [src |-> <<>>, rerr |-> "nil", complete |-> FALSE, dst |-> <<>>,
     first |-> TRUE, key |-> <<>>, check |-> 0, asked |-> 0, tries |-> 0]

New ==
    [closers |-> <<>>, name |-> <<>>, rawFileData |-> "nil", limN |-> 0,
     encrypted |-> FALSE, err |-> "nil", nextSignatureAlreadyRead |-> FALSE,
     LastModificationTime |-> ZeroTime, LastAccessTime |-> ZeroTime,
     CreationTime |-> ZeroTime,
     originalSize |-> Unset, compressedSize |-> Unset, crc32 |-> Unset,
     hasNextEntry |-> [kind |-> "const", val |-> TRUE],
     bgErr |-> [kind |-> "const", val |-> "nil"],
     header |-> ZeroHeader, getter |-> FALSE, lastword |-> <<>>, tr |-> NoTransform]

\* the value an immediate accessor returns (main.go:546-548, 363, 371)
Immediate(c, acc, field) ==
    IF acc.kind # "hdr" THEN acc.val
    ELSE IF field = "CRC32" THEN c.header[field]
    ELSE U64(c.header[field])

(***************************************************************************)
(* readFilenameField (main.go:338-355).  The names of the model are ASCII, *)
(* which string(name) and the ANSI decoder both leave as they are.          *)
(***************************************************************************)
RECURSIVE TrimLeft(_, _)
TrimLeft(s, ch) ==
    IF Len(s) > 0 /\ s[1] = ch THEN TrimLeft(Tail(s), ch) ELSE s

Slash == 47

\* readFilenameField that removes one leading '/' (strings.TrimPrefix)
readFilenameFieldTrimPrefix(p, n) ==
    LET r == ReadFull(p, n)
    IN IF r.err # "nil" THEN [name |-> <<>>, err |-> r.err, pos |-> r.pos]
       ELSE [name |-> IF Len(r.data) > 0 /\ r.data[1] = Slash THEN Tail(r.data)
                      ELSE r.data,
             err |-> "nil", pos |-> r.pos]

readFilenameField(p, n) ==
    LET r == ReadFull(p, n)
    IN IF r.err # "nil" THEN [name |-> <<>>, err |-> r.err, pos |-> r.pos]
       ELSE [name |-> TrimLeft(r.data, Slash), err |-> "nil", pos |-> r.pos]

(***************************************************************************)
(* The extra field (main.go:357-510).  A handler reads at position p from  *)
(* a reader that allows lim more bytes; it returns the entry, the new       *)
(* position and its error.                                                  *)
(***************************************************************************)
idZIP64 == 1
idWinACL == 17491
idStamp == 21589
idNewUnix == 30837

\* readZIP64 that takes the first eight bytes for the compressed size
readZIP64Swapped(c, p, lim) ==
    LET o == ReadFullLim(p, lim, 8)
        c1 == [c EXCEPT !.compressedSize = Const(o.data)]
        k == ReadFullLim(o.pos, lim - 8, 8)
    IN IF o.err # "nil" THEN [cz |-> c, pos |-> o.pos, err |-> "ZIP64OriginalSizeBroken"]
       ELSE IF k.err # "nil"
            THEN [cz |-> c1, pos |-> k.pos, err |-> "ZIP64CompressSizeBroken"]
       ELSE [cz |-> [c1 EXCEPT !.originalSize = Const(k.data)], pos |-> k.pos,
             err |-> "nil"]

readZIP64(c, p, lim) ==
    LET o == ReadFullLim(p, lim, 8)
        c1 == [c EXCEPT !.originalSize = Const(o.data)]
        k == ReadFullLim(o.pos, lim - 8, 8)
    IN IF o.err # "nil" THEN [cz |-> c, pos |-> o.pos, err |-> "ZIP64OriginalSizeBroken"]
       ELSE IF k.err # "nil"
            THEN [cz |-> c1, pos |-> k.pos, err |-> "ZIP64CompressSizeBroken"]
       ELSE [cz |-> [c1 EXCEPT !.compressedSize = Const(k.data)], pos |-> k.pos,
             err |-> "nil"]

\* readStamps that takes the values in the order creation, access, modification
RECURSIVE readStampsCreationFirst(_, _, _, _, _)
readStampsCreationFirst(c, p, lim, flag, i) ==
    LET fields == <<"CreationTime", "LastAccessTime", "LastModificationTime">>
        errs == <<"StampModifiedBroken", "StampAccessBroken", "StampCreationBroken">>
        t == ReadFullLim(p, lim, 4)
    IN IF i > 3 THEN [cz |-> c, pos |-> p, err |-> "nil"]
       ELSE IF ~HasBit(flag, 2 ^ (i - 1))
            THEN readStampsCreationFirst(c, p, lim, flag, i + 1)
       ELSE IF t.err # "nil" THEN [cz |-> c, pos |-> t.pos, err |-> errs[i]]
       ELSE readStampsCreationFirst([c EXCEPT ![fields[i]] = UnixTime(t.data)], t.pos,
                                    lim - 4, flag, i + 1)

\* the three optional times of readTimeStamp, in the order of the flag bits
RECURSIVE readStamps(_, _, _, _, _)
readStamps(c, p, lim, flag, i) ==
    LET fields == <<"LastModificationTime", "LastAccessTime", "CreationTime">>
        errs == <<"StampModifiedBroken", "StampAccessBroken", "StampCreationBroken">>
        t == ReadFullLim(p, lim, 4)
    IN IF i > 3 THEN [cz |-> c, pos |-> p, err |-> "nil"]
       ELSE IF ~HasBit(flag, 2 ^ (i - 1)) THEN readStamps(c, p, lim, flag, i + 1)
       ELSE IF t.err # "nil" THEN [cz |-> c, pos |-> t.pos, err |-> errs[i]]
       ELSE readStamps([c EXCEPT ![fields[i]] = UnixTime(t.data)], t.pos,
                       lim - 4, flag, i + 1)

readTimeStamp(c, p, lim) ==
    LET f == ReadFullLim(p, lim, 1)
    IN IF f.err # "nil" THEN [cz |-> c, pos |-> f.pos, err |-> "StampFlagBroken"]
       ELSE readStamps(c, f.pos, lim - 1, f.data[1], 1)

readWinACL(c, p, lim) ==
    LET d == ReadFullLim(p, lim, 9)
    IN IF d.err # "nil" THEN [cz |-> c, pos |-> d.pos, err |-> d.err]
       ELSE [cz |-> c, pos |-> d.pos + Min2(lim - 9, Len(src) - d.pos), err |-> "nil"]

readNewUnixExtraField(c, p, lim) ==
    LET v == ReadFullLim(p, lim, 2)
        uid == ReadFullLim(v.pos, lim - 2, v.data[2])
        gs == ReadFullLim(uid.pos, lim - (uid.pos - p), 1)
        gid == ReadFullLim(gs.pos, lim - (gs.pos - p), gs.data[1])
    IN IF v.err # "nil" THEN [cz |-> c, pos |-> v.pos, err |-> v.err]
       ELSE IF uid.err # "nil" THEN [cz |-> c, pos |-> uid.pos, err |-> uid.err]
       ELSE IF gs.err # "nil" THEN [cz |-> c, pos |-> gs.pos, err |-> gs.err]
       ELSE [cz |-> c, pos |-> gid.pos, err |-> gid.err]

extendFieldFunc(id, c, p, lim) ==
    CASE id = idZIP64 -> readZIP64(c, p, lim)
      [] id = idStamp -> readTimeStamp(c, p, lim)
      [] id = idWinACL -> readWinACL(c, p, lim)
      [] id = idNewUnix -> readNewUnixExtraField(c, p, lim)
      [] OTHER -> [cz |-> c, pos |-> p, err |-> "nil"]

\* the loop of readExtendField with lrN bytes left in lr
RECURSIVE extendLoop(_, _, _)
extendLoop(c, p, lrN) ==
    IF lrN < 4
    THEN [cz |-> c, pos |-> p + Min2(lrN, Len(src) - p), err |-> "nil"]
    ELSE With(ReadFullLim(p, lrN, 4), LAMBDA h :
           IF h.err # "nil" THEN [cz |-> c, pos |-> h.pos, err |-> "ExtendFieldError"]
           ELSE LET lim == Min2(LE(h.data, 2, 2), lrN - 4)
                    \* io.Copy(io.Discard, llr): what is left of the record
                    after == Min2(h.pos + lim, Len(src))
                IN With(extendFieldFunc(LE(h.data, 0, 2), c, h.pos, lim), LAMBDA f :
                     IF f.err # "nil" THEN f
                     ELSE extendLoop(f.cz, after, lrN - 4 - (after - h.pos))))

readExtendField(c, p, n) ==
    IF n <= 0 THEN [cz |-> c, pos |-> p, err |-> "nil"] ELSE extendLoop(c, p, n)

(***************************************************************************)
(* The decrypter of part_006:14-100.  A uint32 is kept as its four bytes,  *)
(* lowest first, and the arithmetic is done byte by byte, modulo 2^32.      *)
(***************************************************************************)
Xor4 ==
    [a \in 0..15, b \in 0..15 |->
        LET bit(x, i) == (x \div (2 ^ i)) % 2
            x(i) == ((bit(a, i) + bit(b, i)) % 2) * (2 ^ i)
        IN x(0) + x(1) + x(2) + x(3)]

XorByte(a, b) == (16 * Xor4[a \div 16, b \div 16]) + Xor4[a % 16, b % 16]

Xor32(x, y) == [i \in 1..4 |-> XorByte(x[i], y[i])]

Shr1(x) == [i \in 1..4 |-> (x[i] \div 2) + (IF i < 4 THEN (x[i + 1] % 2) * 128 ELSE 0)]

Shr8(x) == <<x[2], x[3], x[4], 0>>

\* hash/crc32.IEEETable: the table of the reversed polynomial 0xEDB88320
IEEE == <<32, 131, 184, 237>>

RECURSIVE tableEntry(_, _)
tableEntry(c, n) ==
    IF n = 0 THEN c
    ELSE With(IF c[1] % 2 = 1 THEN Xor32(Shr1(c), IEEE) ELSE Shr1(c),
              LAMBDA d : tableEntry(d, n - 1))

IEEETable == [i \in 0..255 |-> tableEntry(<<i, 0, 0, 0>>, 8)]

\* part_006:98-100; n2 is a byte
crc32Update(n1, n2) == Xor32(IEEETable[XorByte(n1[1], n2)], Shr8(n1))

\* the keys of Reset (part_006:29-34)
Key0 == 305419896
Key1 == 591751049
Key2 == 878082192
ResetKeys == <<PutLE(Key0, 4), PutLE(Key1, 4), PutLE(Key2, 4)>>

\* the factor of updateKeys (part_006:39)
KeyFactor == 134775813

\* x + b for a byte b
AddByte(x, b) ==
    LET s1 == x[1] + b
        s2 == x[2] + (s1 \div 256)
        s3 == x[3] + (s2 \div 256)
        s4 == x[4] + (s3 \div 256)
    IN <<s1 % 256, s2 % 256, s3 % 256, s4 % 256>>

\* x * KeyFactor + 1
MulAdd(x) ==
    LET m == PutLE(KeyFactor, 4)
        t1 == (x[1] * m[1]) + 1
        t2 == (x[1] * m[2]) + (x[2] * m[1]) + (t1 \div 256)
        t3 == (x[1] * m[3]) + (x[2] * m[2]) + (x[3] * m[1]) + (t2 \div 256)
        t4 == (x[1] * m[4]) + (x[2] * m[3]) + (x[3] * m[2]) + (x[4] * m[1])
              + (t3 \div 256)
    IN <<t1 % 256, t2 % 256, t3 % 256, t4 % 256>>

\* part_006:36-41
updateKeys(key, n) ==
    With(crc32Update(key[1], n), LAMBDA k0 :
      With(MulAdd(AddByte(key[2], k0[1])), LAMBDA k1 :
        <<k0, k1, crc32Update(key[3], k1[4])>>))

\* part_006:43-46: byte((tmp * (tmp ^ 1)) >> 8) needs the low 16 bits of tmp only
decryptByte(key) ==
    LET lo == key[3][1]
        tl == IF (lo \div 2) % 2 = 1 THEN lo ELSE lo + 2
        ul == IF tl % 2 = 1 THEN tl - 1 ELSE tl + 1
        th == key[3][2]
        p16 == (tl * ul) + (256 * (((tl * th) + (th * ul)) % 256))
    IN (p16 \div 256) % 256

\* part_006:48-52: the plain byte and the keys after it
decrypt(key, b) ==
    With(XorByte(b, decryptByte(key)), LAMBDA tmp :
      [key |-> updateKeys(key, tmp), out |-> tmp])

\* the keys after the bytes of a password (part_006:70-72)
RECURSIVE passwordKeys(_, _, _)
passwordKeys(key, pwd, i) ==
    IF i > Len(pwd) THEN key
    ELSE With(updateKeys(key, pwd[i]), LAMBDA k : passwordKeys(k, pwd, i + 1))

\* decrypt applied to the bytes of s from index i on (part_006:74-76, 89-96)
RECURSIVE decryptAll(_, _, _, _)
decryptAll(key, s, i, out) ==
    IF i > Len(s) THEN [key |-> key, out |-> out]
    ELSE With(decrypt(key, s[i]), LAMBDA d :
           decryptAll(d.key, s, i + 1, Append(out, d.out)))

\* the cipher text of s under the keys: what decrypt turns back into s
RECURSIVE encryptAll(_, _, _, _)
encryptAll(key, s, i, out) ==
    IF i > Len(s) THEN out
    ELSE With(XorByte(s[i], decryptByte(key)), LAMBDA c :
           With(updateKeys(key, s[i]), LAMBDA k :
             encryptAll(k, s, i + 1, Append(out, c))))

(***************************************************************************)
(* _PasswordHolder.Ask (main.go:191-200), decrypter.Transform              *)
(* (part_006:56-96) and the transform.Reader that main.go:638 puts around  *)
(* cz.rawFileData.  The getter is the caller's: reply is what it returns if *)
(* it is called, a password or an error.                                    *)
(***************************************************************************)
Ask(lastword, retry, reply) ==
    IF retry \/ lastword = <<>>
    THEN IF reply.err # "nil"
         THEN [pwd |-> <<>>, err |-> reply.err, lastword |-> lastword, called |-> 1]
         ELSE [pwd |-> reply.pwd, err |-> "nil", lastword |-> reply.pwd, called |-> 1]
    ELSE [pwd |-> lastword, err |-> "nil", lastword |-> lastword, called |-> 0]

CHECKSIZE == 12

\* transform.NewReader(cz.rawFileData, newDecrypter(name, holder, check))
NewReader(check) == [NoTransform EXCEPT !.key = ResetKeys, !.check = check]

\* the loop of part_006:62-83 that gives up after two passwords
RECURSIVE tryPasswordsTwice(_, _, _, _, _)
tryPasswordsTwice(d, s, lastword, replies, i) ==
    IF i >= 2 THEN [d |-> d, lastword |-> lastword, err |-> "PasswordError"]
    ELSE With(Ask(lastword, i > 0, replies[i + 1]), LAMBDA a :
           IF a.err # "nil"
           THEN [d |-> [d EXCEPT !.asked = @ + a.called], lastword |-> a.lastword,
                 err |-> a.err]
           ELSE With(decryptAll(passwordKeys(d.key, a.pwd, 1), Take(s, CHECKSIZE),
                                1, <<>>), LAMBDA c :
                  IF c.out[CHECKSIZE] = (d.check \div 256) % 256
                  THEN [d |-> [d EXCEPT !.asked = @ + a.called, !.tries = @ + 1,
                                        !.key = c.key, !.first = FALSE],
                        lastword |-> a.lastword, err |-> "nil"]
                  ELSE tryPasswordsTwice([d EXCEPT !.asked = @ + a.called,
                                                   !.tries = @ + 1,
                                                   !.key = ResetKeys, !.first = TRUE],
                                         s, a.lastword, replies, i + 1)))

\* the loop of part_006:62-83 with a check against the low byte of d.check
RECURSIVE tryPasswordsLowByte(_, _, _, _, _)
tryPasswordsLowByte(d, s, lastword, replies, i) ==
    IF i >= 3 THEN [d |-> d, lastword |-> lastword, err |-> "PasswordError"]
    ELSE With(Ask(lastword, i > 0, replies[i + 1]), LAMBDA a :
           IF a.err # "nil"
           THEN [d |-> [d EXCEPT !.asked = @ + a.called], lastword |-> a.lastword,
                 err |-> a.err]
           ELSE With(decryptAll(passwordKeys(d.key, a.pwd, 1), Take(s, CHECKSIZE),
                                1, <<>>), LAMBDA c :
                  IF c.out[CHECKSIZE] = d.check % 256
                  THEN [d |-> [d EXCEPT !.asked = @ + a.called, !.tries = @ + 1,
                                        !.key = c.key, !.first = FALSE],
                        lastword |-> a.lastword, err |-> "nil"]
                  ELSE tryPasswordsLowByte([d EXCEPT !.asked = @ + a.called,
                                                     !.tries = @ + 1,
                                                     !.key = ResetKeys, !.first = TRUE],
                                           s, a.lastword, replies, i + 1)))

\* the loop of part_006:62-83 without the Reset behind a password that failed
RECURSIVE tryPasswordsNoReset(_, _, _, _, _)
tryPasswordsNoReset(d, s, lastword, replies, i) ==
    IF i >= 3 THEN [d |-> d, lastword |-> lastword, err |-> "PasswordError"]
    ELSE With(Ask(lastword, i > 0, replies[i + 1]), LAMBDA a :
           IF a.err # "nil"
           THEN [d |-> [d EXCEPT !.asked = @ + a.called], lastword |-> a.lastword,
                 err |-> a.err]
           ELSE With(decryptAll(passwordKeys(d.key, a.pwd, 1), Take(s, CHECKSIZE),
                                1, <<>>), LAMBDA c :
                  IF c.out[CHECKSIZE] = (d.check \div 256) % 256
                  THEN [d |-> [d EXCEPT !.asked = @ + a.called, !.tries = @ + 1,
                                        !.key = c.key, !.first = FALSE],
                        lastword |-> a.lastword, err |-> "nil"]
                  ELSE tryPasswordsNoReset([d EXCEPT !.asked = @ + a.called,
                                                     !.tries = @ + 1,
                                                     !.key = c.key, !.first = TRUE],
                                           s, a.lastword, replies, i + 1)))

\* the loop of part_006:62-83 from its i-th round on: d is the decrypter, with the
\* number of getter calls and of passwords tried so far
RECURSIVE tryPasswords(_, _, _, _, _)
tryPasswords(d, s, lastword, replies, i) ==
    IF i >= 3 THEN [d |-> d, lastword |-> lastword, err |-> "PasswordError"]
    ELSE With(Ask(lastword, i > 0, replies[i + 1]), LAMBDA a :
           IF a.err # "nil"
           THEN [d |-> [d EXCEPT !.asked = @ + a.called], lastword |-> a.lastword,
                 err |-> a.err]
           ELSE With(decryptAll(passwordKeys(d.key, a.pwd, 1), Take(s, CHECKSIZE),
                                1, <<>>), LAMBDA c :
                  IF c.out[CHECKSIZE] = (d.check \div 256) % 256
                  THEN [d |-> [d EXCEPT !.asked = @ + a.called, !.tries = @ + 1,
                                        !.key = c.key, !.first = FALSE],
                        lastword |-> a.lastword, err |-> "nil"]
                  ELSE tryPasswords([d EXCEPT !.asked = @ + a.called, !.tries = @ + 1,
                                              !.key = ResetKeys, !.first = TRUE],
                                    s, a.lastword, replies, i + 1)))

\* decrypter.Transform on the source bytes s, into a dst that has room for them
\* (the buffers of transform.Reader have the same size)
Transform(d, s, lastword, replies) ==
    IF ~d.first
    THEN With(decryptAll(d.key, s, 1, <<>>), LAMBDA x :
           [d |-> [d EXCEPT !.key = x.key], lastword |-> lastword, out |-> x.out,
            nSrc |-> Len(s), err |-> "nil"])
    ELSE IF Len(s) < CHECKSIZE
         THEN [d |-> d, lastword |-> lastword, out |-> <<>>, nSrc |-> 0,
               err |-> "ErrShortSrc"]
    ELSE With(tryPasswords(d, s, lastword, replies, 0), LAMBDA t :
           IF t.err # "nil"
           THEN [d |-> t.d, lastword |-> t.lastword, out |-> <<>>, nSrc |-> 0,
                 err |-> t.err]
           ELSE With(decryptAll(t.d.key, Drop(s, CHECKSIZE), 1, <<>>), LAMBDA x :
                  [d |-> [t.d EXCEPT !.key = x.key], lastword |-> t.lastword,
                   out |-> x.out, nSrc |-> Len(s), err |-> "nil"]))

\* the size of the two buffers of a transform.Reader
transformBufSize == 4096

\* Transform would return ErrShortSrc and transform.Reader reads more of its source
ShortSrc(t) == t.first /\ Len(t.src) < CHECKSIZE /\ t.rerr = "nil"

\* one round of the loop of transform.Reader.Read that calls Transform
transformed(t, lastword, replies) ==
    With(Transform(t, t.src, lastword, replies), LAMBDA x :
      IF x.err = "nil"
      THEN [tr |-> [x.d EXCEPT !.dst = x.out, !.src = Drop(t.src, x.nSrc),
                               !.complete = t.rerr # "nil"],
            lastword |-> x.lastword]
      ELSE [tr |-> [x.d EXCEPT !.dst = x.out, !.src = Drop(t.src, x.nSrc),
                               !.complete = TRUE,
                               !.rerr = IF t.rerr \in {"nil", "EOF"} THEN x.err
                                        ELSE t.rerr],
            lastword |-> x.lastword])

(***************************************************************************)
(* CorruptedZip.scan after Close() and bgErr() (main.go:525-645), as a     *)
(* function of the entry and the stream position.  The result carries the  *)
(* error scan returns, whether the goroutine of main.go:618 was started and *)
(* whether the call panicked.                                               *)
(***************************************************************************)
Ret(c, p, e, spawned) ==
    [cz |-> c, pos |-> p, err |-> e, spawn |-> spawned, panic |-> FALSE,
     sig |-> <<>>, hdr |-> 0 - 1, more |-> "unread"]

\* r, with the signature that was read where one was expected
SigRead(r, sg) == [r EXCEPT !.sig = sg]
\* r, with the position at which the 26 bytes of a local header were read
HeaderRead(r, p) == [r EXCEPT !.hdr = p]
\* r, with what cz.hasNextEntry() returned
MoreRead(r, m) == [r EXCEPT !.more = IF m THEN "true" ELSE "false"]

decompressors == {Store, Deflate}

\* scanBody that registers no closer for what is left of the body
scanBodyNoDrain(c, p, spawned) ==
    LET enc == HasBit(c.header.Bits, bitEncrypted)
        c1 == IF enc THEN [c EXCEPT !.encrypted = TRUE,
                                    !.tr = NewReader(c.header.ModifiedTime)]
              ELSE c
    IN IF enc /\ ~c.getter THEN Ret(c, p, "ErrPassword", spawned)
       ELSE IF c.header.Method \notin decompressors
            THEN Ret(c1, p, "UnsupportedMethod", spawned)
       ELSE Ret(c1, p, "nil", spawned)

\* scanBody that looks for the decompressor before it registers the closer for what
\* is left of the body
scanBodyMethodFirst(c, p, spawned) ==
    LET enc == HasBit(c.header.Bits, bitEncrypted)
        c1 == IF enc THEN [c EXCEPT !.encrypted = TRUE,
                                    !.tr = NewReader(c.header.ModifiedTime)]
              ELSE c
        c2 == [c1 EXCEPT !.closers = Append(@, "drain")]
    IN IF enc /\ ~c.getter THEN Ret(c, p, "ErrPassword", spawned)
       ELSE IF c.header.Method \notin decompressors
            THEN Ret(c1, p, "UnsupportedMethod", spawned)
       ELSE Ret(c2, p, "nil", spawned)

\* main.go:632-645
scanBody(c, p, spawned) ==
    LET enc == HasBit(c.header.Bits, bitEncrypted)
        c1 == IF enc THEN [c EXCEPT !.encrypted = TRUE,
                                    !.tr = NewReader(c.header.ModifiedTime)]
              ELSE c
        c2 == [c1 EXCEPT !.closers = Append(@, "drain")]
    IN IF enc /\ ~c.getter THEN Ret(c, p, "ErrPassword", spawned)
       ELSE IF c.header.Method \notin decompressors
            THEN Ret(c2, p, "UnsupportedMethod", spawned)
       ELSE Ret(c2, p, "nil", spawned)

\* scanFile that leaves the accessors of an entry with descriptor on the fields
\* of the local header
scanFileHeaderFields(c, p) ==
    IF HasBit(c.header.Bits, bitDataDescriptorUsed)
    THEN scanBody([c EXCEPT !.bgErr = Lazy, !.hasNextEntry = Lazy,
                            !.closers = Append(@, "pipeRClose"),
                            !.nextSignatureAlreadyRead = TRUE,
                            !.rawFileData = "pipe"], p, TRUE)
    ELSE scanBody([c EXCEPT !.rawFileData = "limited",
                            !.limN = ByteCount(Immediate(c, c.compressedSize, "CompressedSize")),
                            !.nextSignatureAlreadyRead = FALSE], p, FALSE)

\* scanFile that bounds the body of an entry without descriptor by the
\* UncompressedSize of its header
scanFileOriginalSize(c, p) ==
    IF HasBit(c.header.Bits, bitDataDescriptorUsed)
    THEN scanBody([c EXCEPT !.originalSize = Lazy, !.compressedSize = Lazy,
                            !.crc32 = Lazy, !.bgErr = Lazy, !.hasNextEntry = Lazy,
                            !.closers = Append(@, "pipeRClose"),
                            !.nextSignatureAlreadyRead = TRUE,
                            !.rawFileData = "pipe"], p, TRUE)
    ELSE scanBody([c EXCEPT !.rawFileData = "limited",
                            !.limN = ByteCount(Immediate(c, c.originalSize, "UncompressedSize")),
                            !.nextSignatureAlreadyRead = FALSE], p, FALSE)

\* scanFile that binds the three accessors to the result of a goroutine for an
\* entry without descriptor as well
scanFileLazyAlways(c, p) ==
    IF HasBit(c.header.Bits, bitDataDescriptorUsed)
    THEN scanBody([c EXCEPT !.originalSize = Lazy, !.compressedSize = Lazy,
                            !.crc32 = Lazy, !.bgErr = Lazy, !.hasNextEntry = Lazy,
                            !.closers = Append(@, "pipeRClose"),
                            !.nextSignatureAlreadyRead = TRUE,
                            !.rawFileData = "pipe"], p, TRUE)
    ELSE scanBody([c EXCEPT !.originalSize = Lazy, !.compressedSize = Lazy,
                            !.crc32 = Lazy,
                            !.rawFileData = "limited",
                            !.limN = ByteCount(Immediate(c, c.compressedSize, "CompressedSize")),
                            !.nextSignatureAlreadyRead = FALSE], p, FALSE)

\* main.go:591-631
scanFile(c, p) ==
    IF HasBit(c.header.Bits, bitDataDescriptorUsed)
    THEN scanBody([c EXCEPT !.originalSize = Lazy, !.compressedSize = Lazy,
                            !.crc32 = Lazy, !.bgErr = Lazy, !.hasNextEntry = Lazy,
                            !.closers = Append(@, "pipeRClose"),
                            !.nextSignatureAlreadyRead = TRUE,
                            !.rawFileData = "pipe"], p, TRUE)
    ELSE scanBody([c EXCEPT !.rawFileData = "limited",
                            !.limN = ByteCount(Immediate(c, c.compressedSize, "CompressedSize")),
                            !.nextSignatureAlreadyRead = FALSE], p, FALSE)

\* scanDir that starts a goroutine for a directory with descriptor
scanDirSpawns(c, p) ==
    LET size == Immediate(c, c.compressedSize, "CompressedSize")
        n == ByteCount(size)
    IN IF HasBit(c.header.Bits, bitDataDescriptorUsed)
       THEN Ret([c EXCEPT !.nextSignatureAlreadyRead = TRUE], p, "nil", TRUE)
       ELSE IF IsNegInt64(size) THEN [Ret(c, p, "panic", FALSE) EXCEPT !.panic = TRUE]
       ELSE IF n > Len(src) - p THEN Ret(c, Len(src), "EOF", FALSE)
       ELSE Ret([c EXCEPT !.nextSignatureAlreadyRead = FALSE], p + n, "nil", FALSE)

\* scanDir that leaves the payload of a directory without descriptor in the stream
scanDirNoSkip(c, p) ==
    IF HasBit(c.header.Bits, bitDataDescriptorUsed)
    THEN With(SeekToEnd(SeekInit, p), LAMBDA x :
           IF x.r.err # "nil" THEN Ret(c, x.pos, x.r.err, FALSE)
           ELSE Ret([c EXCEPT !.hasNextEntry = Const(x.r.hasNext),
                              !.nextSignatureAlreadyRead = TRUE], x.pos, "nil", FALSE))
    ELSE Ret([c EXCEPT !.nextSignatureAlreadyRead = FALSE], p, "nil", FALSE)

\* main.go:569-589
scanDir(c, p) ==
    LET size == Immediate(c, c.compressedSize, "CompressedSize")
        n == ByteCount(size)
    IN IF HasBit(c.header.Bits, bitDataDescriptorUsed)
       THEN With(SeekToEnd(SeekInit, p), LAMBDA x :
              IF x.r.err # "nil" THEN Ret(c, x.pos, x.r.err, FALSE)
              ELSE Ret([c EXCEPT !.hasNextEntry = Const(x.r.hasNext),
                                 !.nextSignatureAlreadyRead = TRUE], x.pos, "nil", FALSE))
       ELSE IF IsNegInt64(size) THEN [Ret(c, p, "panic", FALSE) EXCEPT !.panic = TRUE]
       ELSE IF n > Len(src) - p THEN Ret(c, Len(src), "EOF", FALSE)
       ELSE Ret([c EXCEPT !.nextSignatureAlreadyRead = FALSE], p + n, "nil", FALSE)

\* main.go:543-589: the fixed header, the name, the extra field, the dispatch
scanHeader(c, p) ==
    With(ReadFull(p, headerSize), LAMBDA h :
      IF h.err # "nil" THEN Ret(c, h.pos, h.err, FALSE)
      ELSE HeaderRead(With(DecodeHeader(h.data), LAMBDA hd :
        With(readFilenameField(h.pos, hd.FilenameLength), LAMBDA nm :
          With([c EXCEPT !.header = hd,
                         !.originalSize = FromHeader, !.compressedSize = FromHeader,
                         !.crc32 = FromHeader,
                         !.bgErr = Const("nil"), !.hasNextEntry = Const(TRUE),
                         !.CreationTime = stamp(hd), !.LastModificationTime = stamp(hd),
                         !.LastAccessTime = stamp(hd),
                         !.name = nm.name], LAMBDA c2 :
            IF nm.err # "nil" THEN Ret(c2, nm.pos, nm.err, FALSE)
            ELSE With(readExtendField(c2, nm.pos, hd.ExtendFieldSize), LAMBDA ex :
              IF ex.err # "nil" THEN Ret(ex.cz, ex.pos, ex.err, FALSE)
              ELSE IF Len(nm.name) > 0 /\ nm.name[Len(nm.name)] = Slash
                   THEN scanDir(ex.cz, ex.pos)
              ELSE scanFile(ex.cz, ex.pos))))), p))

\* scanSignature that takes any four bytes that are not PK\x03\x04 for the end
\* of the archive
scanSignatureLenient(c, p) ==
    LET c0 == [c EXCEPT !.rawFileData = "nil", !.encrypted = FALSE,
                        !.tr = NoTransform]
        sg == ReadFull(p, sigSize)
    IN IF c.nextSignatureAlreadyRead THEN scanHeader(c0, p)
       ELSE IF sg.err # "nil" THEN SigRead(Ret(c0, sg.pos, sg.err, FALSE), sg.data)
       ELSE IF sg.data # sigLocalFileHeader
            THEN SigRead(Ret(c0, sg.pos, "EOF", FALSE), sg.data)
       ELSE SigRead(scanHeader(c0, sg.pos), sg.data)

\* scanSignature that reads four bytes as the signature in every call
scanSignatureAlways(c, p) ==
    LET c0 == [c EXCEPT !.rawFileData = "nil", !.encrypted = FALSE,
                        !.tr = NoTransform]
        sg == ReadFull(p, sigSize)
    IN IF sg.err # "nil" THEN SigRead(Ret(c0, sg.pos, sg.err, FALSE), sg.data)
       ELSE IF sg.data = sigCentralDirectoryHeader
            THEN SigRead(Ret(c0, sg.pos, "EOF", FALSE), sg.data)
       ELSE IF sg.data # sigLocalFileHeader
            THEN SigRead(Ret(c0, sg.pos, "ErrLocalFileHeaderSignatureNotFound", FALSE),
                         sg.data)
       ELSE SigRead(scanHeader(c0, sg.pos), sg.data)

\* main.go:528-541
scanSignature(c, p) ==
    LET c0 == [c EXCEPT !.rawFileData = "nil", !.encrypted = FALSE,
                        !.tr = NoTransform]
        sg == ReadFull(p, sigSize)
    IN IF c.nextSignatureAlreadyRead THEN scanHeader(c0, p)
       ELSE IF sg.err # "nil" THEN SigRead(Ret(c0, sg.pos, sg.err, FALSE), sg.data)
       ELSE IF sg.data = sigCentralDirectoryHeader
            THEN SigRead(Ret(c0, sg.pos, "EOF", FALSE), sg.data)
       ELSE IF sg.data # sigLocalFileHeader
            THEN SigRead(Ret(c0, sg.pos, "ErrLocalFileHeaderSignatureNotFound", FALSE),
                         sg.data)
       ELSE SigRead(scanHeader(c0, sg.pos), sg.data)

(***************************************************************************)
(* compress/flate behind Body() (main.go:33-36, 304-310), for streams of   *)
(* stored blocks: a header byte (BFINAL, BTYPE = 00), LEN, NLEN, LEN bytes. *)
(* flate.NewReader reads its source through a bufio.Reader and decodes up   *)
(* to the final block before Read has anything to return (the bodies of the *)
(* model are far smaller than its 32 KiB window).                           *)
(***************************************************************************)
RECURSIVE Inflate(_, _, _)
Inflate(z, i, out) ==
    LET len == LE(z, i + 1, 2)
        nlen == LE(z, i + 3, 2)
        got == Slice(z, i + 5, len)
    IN IF Len(z) < i + 1 THEN [st |-> "more", out |-> out, used |-> i]
       ELSE IF (z[i + 1] \div 2) % 4 # 0 THEN [st |-> "corrupt", out |-> out, used |-> i]
       ELSE IF Len(z) < i + 5 THEN [st |-> "more", out |-> out, used |-> i]
       ELSE IF nlen # 65535 - len THEN [st |-> "corrupt", out |-> out, used |-> i]
       ELSE IF Len(got) < len THEN [st |-> "more", out |-> out \o got, used |-> i]
       ELSE IF z[i + 1] % 2 = 1 THEN [st |-> "done", out |-> out \o got, used |-> i + 5 + len]
       ELSE Inflate(z, i + 5 + len, out \o got)

\* the reader of Body(): what flate has read (zin) and decoded but not yet
\* returned (pend), and what the caller has seen: the bytes (out), the result of
\* the last Read (rd), whether Close() was called since the last Scan() (closed)
NoBody == [kind |-> "none", zin |-> <<>>, pend |-> <<>>, st |-> "run", out |-> <<>>,
           rd |-> "none", closed |-> FALSE]

(***************************************************************************)
(* io.Pipe (main.go:613) and one Read of cz.rawFileData with a buffer of k  *)
(* bytes: an io.LimitedReader over cz.br (main.go:629) or the pipe reader.  *)
(***************************************************************************)
\* n bytes of payload that hold no signature
Fill(n) == [i \in 1..n |-> 65 + (i % 7)]

NewPipe == [wpend |-> FALSE, data |-> <<>>, rclosed |-> FALSE, wclosed |-> FALSE]

NotReady == [ready |-> FALSE, data |-> <<>>, err |-> "nil"]

\* one Read of what the transform.Reader wraps
sourceRead(k) ==
    LET n == Min2(Min2(k, cz.limN), Len(src) - pos)
        m == Min2(k, Len(pipe.data))
    IN CASE cz.rawFileData = "limited" ->
              IF n <= 0 THEN [ready |-> TRUE, data |-> <<>>, err |-> "EOF"]
              ELSE [ready |-> TRUE, data |-> Slice(src, pos, n), err |-> "nil"]
         [] cz.rawFileData = "pipe" ->
              IF pipe.rclosed THEN [ready |-> TRUE, data |-> <<>>, err |-> "ErrClosedPipe"]
              ELSE IF pipe.wpend
                   THEN [ready |-> TRUE, data |-> Take(pipe.data, m), err |-> "nil"]
              ELSE IF pipe.wclosed THEN [ready |-> TRUE, data |-> <<>>, err |-> "EOF"]
              ELSE NotReady
         [] OTHER -> NotReady

\* transform.Reader.Read returns what it has transformed, with its error behind
\* the last byte; a Read of a body that is not encrypted is a Read of the source
rawRead(k) ==
    LET n == Min2(k, Len(cz.tr.dst))
    IN IF ~cz.encrypted THEN sourceRead(k)
       ELSE IF cz.tr.dst # <<>>
            THEN [ready |-> TRUE, data |-> Take(cz.tr.dst, n),
                  err |-> IF n = Len(cz.tr.dst) /\ cz.tr.complete THEN cz.tr.rerr
                          ELSE "nil"]
       ELSE IF cz.tr.complete THEN [ready |-> TRUE, data |-> <<>>, err |-> cz.tr.rerr]
       ELSE NotReady

\* what the Read of the source that returned r leaves behind, c being the
\* iterator apart from the limit of the io.LimitedReader
sourceReadDone(r, c) ==
    /\ IF cz.rawFileData = "limited"
       THEN /\ pos' = pos + Len(r.data)
            /\ cz' = [c EXCEPT !.limN = @ - Len(r.data)]
            /\ UNCHANGED <<pipe, sink>>
       ELSE /\ IF r.err = "nil"
               THEN pipe' = [pipe EXCEPT !.data = Drop(@, Len(r.data)),
                                         !.wpend = Len(r.data) < Len(pipe.data)]
               ELSE UNCHANGED pipe
            /\ sink' = sink \o r.data
            /\ pos' = pos
            /\ cz' = c

\* what the Read that returned r leaves behind
rawReadDone(r) ==
    IF cz.encrypted
    THEN /\ cz' = [cz EXCEPT !.tr.dst = Drop(@, Len(r.data))]
         /\ UNCHANGED <<pos, pipe, sink>>
    ELSE sourceReadDone(r, cz)

(***************************************************************************)
(* The caller's calls.  The caller is one thread: a call that waits (for   *)
(* the pipe or for the result channel) leaves pc inside the call.           *)
(***************************************************************************)
Idle == [op |-> "none", k |-> 0, i |-> 0]

MaxFailedScans == 2
\* a caller reads with a buffer of one byte at most MaxShortReads times per body,
\* and with a buffer of bufioSize bytes otherwise
MaxShortReads == 2
ReadSizes == {1, bufioSize}

\* the field of CorruptedZip behind each late-bound accessor (main.go:253-269, 296)
accessor == [OriginalSize |-> "originalSize", CompressedSize |-> "compressedSize",
             CRC32 |-> "crc32", Err |-> "bgErr"]
descriptorField == [OriginalSize |-> "UncompressedSize",
                    CompressedSize |-> "CompressedSize", CRC32 |-> "CRC32"]

\* Scan() is entered: scan() starts with Close() (main.go:648-649, 520-521)
CallScan ==
    /\ pc = "idle"
    /\ obs.failed < MaxFailedScans
    /\ pc' = "closers"
    /\ call' = [op |-> "Scan", k |-> 0, i |-> Len(cz.closers)]
    /\ body' = NoBody
    /\ obs' = [obs EXCEPT !.skipped =
                   IF obs.ret /\ cz.rawFileData # "nil" /\ body.rd \in {"none", "nil"}
                   THEN @ \cup {<<Len(obs.emitted), body.rd>>} ELSE @,
                          !.reg = cz.closers, !.ran = <<>>]
    /\ UNCHANGED <<src, pos, sk, seekRes, sink, seekIn, arch, cz, lz, pipe, prod>>

\* one round of the loop of Each(f) is entered (main.go:660-661): scan() starts
\* with Close().  The round before it, if any, ended with f returning true; a
\* round that is followed by a call of Scan() or by nothing is one where f
\* returned false, or where scan() failed.
CallEach ==
    /\ pc = "idle"
    /\ obs.failed < MaxFailedScans
    /\ pc' = "closers"
    /\ call' = [op |-> "Each", k |-> 0, i |-> Len(cz.closers)]
    /\ body' = NoBody
    /\ obs' = [obs EXCEPT !.skipped =
                   IF obs.ret /\ cz.rawFileData # "nil" /\ body.rd \in {"none", "nil"}
                   THEN @ \cup {<<Len(obs.emitted), body.rd>>} ELSE @,
                          !.reg = cz.closers, !.ran = <<>>]
    /\ UNCHANGED <<src, pos, sk, seekRes, sink, seekIn, arch, cz, lz, pipe, prod>>

\* Close() is entered (main.go:513)
CallClose ==
    /\ pc = "idle"
    /\ pc' = "closers"
    /\ call' = [op |-> "Close", k |-> 0, i |-> Len(cz.closers)]
    /\ body' = [body EXCEPT !.closed = TRUE]
    /\ obs' = [obs EXCEPT !.reg = cz.closers, !.ran = <<>>]
    /\ UNCHANGED <<src, pos, sk, seekRes, sink, seekIn, arch, cz, lz, pipe, prod>>

\* a loop of Close that calls the closers in the order of their registration
RunCloserForward ==
    /\ pc = "closers"
    /\ call.i >= 1
    /\ LET f == cz.closers[Len(cz.closers) + 1 - call.i]
       IN /\ pipe' = IF f = "pipeRClose" THEN [pipe EXCEPT !.rclosed = TRUE] ELSE pipe
          /\ obs' = [obs EXCEPT !.ran = Append(@, f)]
          /\ IF f = "drain"
             THEN pc' = "drain" /\ UNCHANGED call
             ELSE pc' = "closers" /\ call' = [call EXCEPT !.i = @ - 1]
    /\ UNCHANGED <<src, pos, sk, seekRes, sink, seekIn, arch, cz, lz, prod, body>>

\* one closer of the loop of Close (main.go:514-516): r.Close() of main.go:309,
\* pipeR.Close() of main.go:614, or the start of the io.Copy of main.go:640
RunCloser ==
    /\ pc = "closers"
    /\ call.i >= 1
    /\ LET f == cz.closers[call.i]
       IN /\ pipe' = IF f = "pipeRClose" THEN [pipe EXCEPT !.rclosed = TRUE] ELSE pipe
          /\ obs' = [obs EXCEPT !.ran = Append(@, f)]
          /\ IF f = "drain"
             THEN pc' = "drain" /\ UNCHANGED call
             ELSE pc' = "closers" /\ call' = [call EXCEPT !.i = @ - 1]
    /\ UNCHANGED <<src, pos, sk, seekRes, sink, seekIn, arch, cz, lz, prod, body>>

\* io.Copy(io.Discard, cz.rawFileData): one Read; an error or EOF ends the copy
DrainStep ==
    /\ pc = "drain"
    /\ \E r \in {rawRead(bufioSize)} :
          /\ r.ready
          /\ rawReadDone(r)
          /\ IF r.err = "nil"
             THEN UNCHANGED <<pc, call>>
             ELSE pc' = "closers" /\ call' = [call EXCEPT !.i = @ - 1]
    /\ UNCHANGED <<src, sk, seekRes, seekIn, arch, lz, prod, body, obs>>

\* a Close that leaves the closers it has called in the list
ClosersDoneKeepsList ==
    /\ pc = "closers"
    /\ call.i = 0
    /\ IF call.op = "Close"
       THEN pc' = "idle" /\ call' = Idle
       ELSE pc' = "bgErr" /\ UNCHANGED call
    /\ UNCHANGED <<src, pos, sk, seekRes, sink, seekIn, arch, cz, lz, pipe, prod, body, obs>>

\* the end of Close (main.go:517); Scan goes on to cz.bgErr() (main.go:522)
ClosersDone ==
    /\ pc = "closers"
    /\ call.i = 0
    /\ cz' = [cz EXCEPT !.closers = <<>>]
    /\ IF call.op = "Close"
       THEN pc' = "idle" /\ call' = Idle
       ELSE pc' = "bgErr" /\ UNCHANGED call
    /\ UNCHANGED <<src, pos, sk, seekRes, sink, seekIn, arch, lz, pipe, prod, body, obs>>

\* Value that takes the result where the goroutine has it, without waiting for
\* the send
ReceiveUnsent ==
    /\ pc \in {"bgErr", "value"}
    /\ IF pc = "bgErr" THEN cz.bgErr.kind = "lazy" ELSE cz[accessor[call.op]].kind = "lazy"
    /\ ~lz.once
    /\ prod.pc \in {"scan", "write", "send"}
    /\ lz' = [once |-> TRUE, value |-> seekRes]
    /\ prod' = IF prod.pc = "send" THEN [prod EXCEPT !.pc = "done"] ELSE prod
    /\ UNCHANGED <<src, pos, sk, seekRes, sink, seekIn, arch, cz, pipe, pc, call, body, obs>>

\* Value without sync.Once: the receive is not remembered
ReceiveEachCall ==
    /\ pc \in {"bgErr", "value"}
    /\ IF pc = "bgErr" THEN cz.bgErr.kind = "lazy" ELSE cz[accessor[call.op]].kind = "lazy"
    /\ ~lz.once
    /\ prod.pc = "send"
    /\ lz' = [once |-> FALSE, value |-> seekRes]
    /\ prod' = [prod EXCEPT !.pc = "done"]
    /\ UNCHANGED <<src, pos, sk, seekRes, sink, seekIn, arch, cz, pipe, pc, call, body, obs>>

\* lazyReadResult.Value (main.go:214-220): the first call receives from the
\* channel, on which the goroutine is sending (main.go:621)
Receive ==
    /\ pc \in {"bgErr", "value"}
    /\ IF pc = "bgErr" THEN cz.bgErr.kind = "lazy" ELSE cz[accessor[call.op]].kind = "lazy"
    /\ ~lz.once
    /\ prod.pc = "send"
    /\ lz' = [once |-> TRUE, value |-> seekRes]
    /\ prod' = [prod EXCEPT !.pc = "done"]
    /\ UNCHANGED <<src, pos, sk, seekRes, sink, seekIn, arch, cz, pipe, pc, call, body, obs>>

\* scan() after Close() (main.go:522-645)
scan(c, p) ==
    LET bg == IF c.bgErr.kind = "lazy" THEN lz.value.err ELSE c.bgErr.val
        more == IF c.hasNextEntry.kind = "lazy" THEN lz.value.hasNext
                ELSE c.hasNextEntry.val
    IN IF bg # "nil" THEN Ret(c, p, bg, FALSE)
       ELSE IF ~more THEN MoreRead(Ret(c, p, "EOF", FALSE), FALSE)
       ELSE MoreRead(scanSignature(c, p), TRUE)

\* Scan() that keeps io.EOF as the error
ScanErrRaw(e) == e

\* what Scan() keeps of the error of scan() (main.go:650-654)
ScanErr(e) == IF e = "EOF" THEN "nil" ELSE e

\* what Each() keeps of the error of scan() (main.go:661-667): cz.err is
\* assigned only when scan() failed with something else than io.EOF
EachErr(old, e) == IF e \in {"nil", "EOF"} THEN old ELSE e

\* the rest of scan() and the return of Scan() (main.go:522-645, 649-655), or
\* the end of one round of the loop of Each() (main.go:660-670)
ScanRest ==
    /\ pc = "bgErr"
    /\ cz.bgErr.kind = "lazy" => lz.once
    /\ \E r \in {scan(cz, pos)} :
          LET ok == r.err = "nil"
          IN
          /\ cz' = [r.cz EXCEPT !.err = IF call.op = "Each" THEN EachErr(cz.err, r.err)
                                       ELSE ScanErr(r.err)]
          /\ pos' = r.pos
          /\ pc' = IF r.panic THEN "panic" ELSE "idle"
          /\ obs' = [obs EXCEPT !.emitted = IF ok THEN Append(@, r.cz.name) ELSE @,
                                !.headers = IF r.hdr >= 0 THEN Append(@, r.hdr) ELSE @,
                                !.failed = IF ok THEN @ ELSE @ + 1,
                                !.ret = ok,
                                !.sig = r.sig,
                                !.more = r.more,
                                !.overlap = @ \/ (r.spawn /\ prod.pc \notin {"none", "done"}),
                                !.reg = <<>>, !.ran = <<>>,
                                !.seen = IF r.hdr >= 0 THEN {}
                                         ELSE IF cz.bgErr.kind = "lazy"
                                              THEN @ \cup {lz.value}
                                         ELSE @]
          /\ IF r.spawn
             THEN /\ prod' = [pc |-> "scan"]
                  /\ sk' = SeekInit
                  /\ seekRes' = NoSeekRes
                  /\ sink' = <<>>
                  /\ pipe' = NewPipe
                  /\ lz' = [once |-> FALSE, value |-> NoSeekRes]
             ELSE UNCHANGED <<prod, sk, seekRes, sink, pipe, lz>>
    /\ call' = Idle
    /\ UNCHANGED <<src, seekIn, arch, body>>

\* Body() (main.go:300-311); the caller asks for it once per entry
CallBody ==
    /\ pc = "idle"
    /\ body.kind = "none"
    /\ IF cz.rawFileData = "nil" \/ cz.header.Method \notin decompressors
       THEN body' = [body EXCEPT !.kind = "empty"] /\ UNCHANGED cz
       ELSE /\ body' = [body EXCEPT !.kind = IF cz.header.Method = Store THEN "store"
                                              ELSE "flate"]
            /\ cz' = [cz EXCEPT !.closers = Append(@, "rClose")]
    /\ UNCHANGED <<src, pos, sk, seekRes, sink, seekIn, arch, lz, pipe, prod, pc, call, obs>>

\* the caller calls Read on the body with a buffer of k bytes
CallRead ==
    /\ pc = "idle"
    /\ body.kind # "none"
    /\ \E k \in ReadSizes :
          /\ k < bufioSize => Len(body.out) < MaxShortReads
          /\ call' = [op |-> "Read", k |-> k, i |-> 0]
    /\ pc' = "read"
    /\ UNCHANGED <<src, pos, sk, seekRes, sink, seekIn, arch, cz, lz, pipe, prod, body, obs>>

\* Read of bytes.NewReader([]byte{}) and of io.NopCloser(cz.rawFileData)
ReadReturn ==
    /\ pc = "read"
    /\ body.kind \in {"empty", "store"}
    /\ IF body.kind = "empty"
       THEN /\ body' = [body EXCEPT !.rd = "EOF"]
            /\ UNCHANGED <<pos, cz, pipe, sink>>
       ELSE \E r \in {rawRead(call.k)} :
               /\ r.ready
               /\ rawReadDone(r)
               /\ body' = [body EXCEPT !.out = @ \o r.data, !.rd = r.err]
    /\ pc' = "idle"
    /\ call' = Idle
    /\ UNCHANGED <<src, sk, seekRes, seekIn, arch, lz, prod, obs>>

\* the flate reader needs input: its bufio.Reader reads cz.rawFileData once
FlateFill ==
    /\ pc = "read"
    /\ body.kind = "flate"
    /\ body.st = "run"
    /\ Inflate(body.zin, 0, <<>>).st = "more"
    /\ \E r \in {rawRead(bufioSize)} :
          /\ r.ready
          /\ rawReadDone(r)
          /\ body' = IF r.err = "nil" \/ Inflate(body.zin \o r.data, 0, <<>>).st # "more"
                     THEN [body EXCEPT !.zin = @ \o r.data]
                     ELSE [body EXCEPT !.zin = @ \o r.data,
                                       !.st = IF r.err = "EOF" THEN "ErrUnexpectedEOF"
                                              ELSE r.err,
                                       !.pend = Inflate(body.zin \o r.data, 0, <<>>).out]
    /\ UNCHANGED <<src, sk, seekRes, seekIn, arch, lz, prod, pc, call, obs>>

\* Read of the flate reader returns: decoded bytes, and the reader's error with
\* the last of them
FlateReturn ==
    /\ pc = "read"
    /\ body.kind = "flate"
    /\ LET z == Inflate(body.zin, 0, <<>>)
           st == IF body.st # "run" THEN body.st
                 ELSE IF z.st = "done" THEN "EOF" ELSE "CorruptInputError"
           pend == IF body.st # "run" THEN body.pend ELSE z.out
           n == Min2(call.k, Len(pend))
       IN /\ body.st = "run" => z.st # "more"
          /\ body' = [body EXCEPT !.st = st, !.pend = Drop(pend, n),
                                  !.out = @ \o Take(pend, n),
                                  !.rd = IF n = Len(pend) THEN st ELSE "nil"]
    /\ pc' = "idle"
    /\ call' = Idle
    /\ UNCHANGED <<src, pos, sk, seekRes, sink, seekIn, arch, cz, lz, pipe, prod, obs>>

\* OriginalSize(), CompressedSize(), CRC32() or Err() is entered (main.go:253-297)
CallAccessor ==
    /\ pc = "idle"
    /\ \E op \in DOMAIN accessor : call' = [op |-> op, k |-> 0, i |-> 0]
    /\ pc' = "value"
    /\ UNCHANGED <<src, pos, sk, seekRes, sink, seekIn, arch, cz, lz, pipe, prod, body, obs>>

\* how the accessor call in progress ends: its value, or a panic for a func that
\* was never set and for a field of the nil descriptor (main.go:598-604)
accessorResult ==
    LET a == cz[accessor[call.op]]
    IN IF call.op = "Err"
       THEN IF cz.err # "nil" THEN [panic |-> FALSE, val |-> cz.err]
            ELSE IF a.kind = "lazy" THEN [panic |-> FALSE, val |-> lz.value.err]
            ELSE [panic |-> FALSE, val |-> a.val]
       ELSE IF a.kind = "unset" THEN [panic |-> TRUE, val |-> <<>>]
       ELSE IF a.kind # "lazy"
            THEN [panic |-> FALSE, val |-> Immediate(cz, a, descriptorField[call.op])]
       ELSE IF lz.value.dd.isNil THEN [panic |-> TRUE, val |-> <<>>]
       ELSE IF call.op = "CRC32" THEN [panic |-> FALSE, val |-> lz.value.dd.CRC32]
       ELSE [panic |-> FALSE, val |-> U64(lz.value.dd[descriptorField[call.op]])]

\* the accessor call in progress calls Value(): its func is the lazy one
ReadsValue ==
    /\ cz[accessor[call.op]].kind = "lazy"
    /\ ~(call.op = "Err" /\ cz.err # "nil")

\* an accessor waits in Value() until the result is received
accessorWaits == ReadsValue /\ ~lz.once

AccessorReturn ==
    /\ pc = "value"
    /\ ~accessorWaits
    /\ pc' = IF accessorResult.panic THEN "panic" ELSE "idle"
    /\ call' = Idle
    /\ obs' = [obs EXCEPT !.seen = IF ReadsValue THEN @ \cup {lz.value} ELSE @]
    /\ UNCHANGED <<src, pos, sk, seekRes, sink, seekIn, arch, cz, lz, pipe, prod, body>>

(***************************************************************************)
(* Encrypted bodies: the getter is registered, and the transform.Reader     *)
(* works inside a Read of cz.rawFileData.                                   *)
(***************************************************************************)
\* RegisterPasswordHandler (main.go:277-279)
RegisterPasswordHandler ==
    /\ pc = "idle"
    /\ ~cz.getter
    /\ cz' = [cz EXCEPT !.getter = TRUE]
    /\ UNCHANGED <<src, pos, sk, seekRes, sink, seekIn, arch, lz, pipe, prod, pc, call, body,
                   obs>>

\* the passwords the caller's getter returns: the one the archives of the model
\* are encrypted with, and another one
Right == <<112>>
Wrong == <<119>>
GetterReplies ==
    {[pwd |-> Right, err |-> "nil"], [pwd |-> Wrong, err |-> "nil"],
     [pwd |-> <<>>, err |-> "GetterError"]}

\* the body reader, or the drain, is inside a Read of cz.rawFileData
ReadingRaw ==
    \/ pc = "drain"
    \/ pc = "read" /\ body.kind = "store"
    \/ /\ pc = "read"
       /\ body.kind = "flate"
       /\ body.st = "run"
       /\ Inflate(body.zin, 0, <<>>).st = "more"

\* transform.Reader.Read has nothing to return yet
Transforming ==
    /\ ReadingRaw
    /\ cz.encrypted
    /\ cz.tr.dst = <<>>
    /\ ~cz.tr.complete

\* a round of transform.Reader.Read that calls Transform and goes round again;
\* Transform calls the getter up to three times
TransformRound ==
    /\ Transforming
    /\ cz.tr.src # <<>> \/ cz.tr.rerr # "nil"
    /\ ~ShortSrc(cz.tr)
    /\ \E replies \in [1..3 -> GetterReplies] :
          \E x \in {transformed(cz.tr, cz.lastword, replies)} :
              cz' = [cz EXCEPT !.tr = x.tr, !.lastword = x.lastword]
    /\ UNCHANGED <<src, pos, sk, seekRes, sink, seekIn, arch, lz, pipe, prod, pc, call, body,
                   obs>>

\* a round of transform.Reader.Read that reads the source: there is nothing to
\* transform, or Transform asks for more (ErrShortSrc)
TransformSourceRead ==
    /\ Transforming
    /\ (cz.tr.src = <<>> /\ cz.tr.rerr = "nil") \/ ShortSrc(cz.tr)
    /\ \E r \in {sourceRead(transformBufSize - Len(cz.tr.src))} :
          /\ r.ready
          /\ sourceReadDone(r, [cz EXCEPT !.tr.src = @ \o r.data, !.tr.rerr = r.err])
    /\ UNCHANGED <<src, sk, seekRes, seekIn, arch, lz, prod, pc, call, body, obs>>

(***************************************************************************)
(* The goroutine of main.go:618-626                                        *)
(***************************************************************************)
\* seekToSignature reads cz.br up to its next w.Write
ProducerScan ==
    /\ prod.pc = "scan"
    /\ \E x \in {SeekUntilWrite(sk, pos)} :
          /\ sk' = SeekState(x.r)
          /\ pos' = x.pos
          /\ seekRes' = SeekResOf(x.r)
          /\ pipe' = [pipe EXCEPT !.wpend = ~pipe.rclosed, !.data = x.r.out]
    /\ prod' = [prod EXCEPT !.pc = "write"]
    /\ UNCHANGED <<src, sink, seekIn, arch, cz, lz, pc, call, body, obs>>

\* a goroutine that ends behind pipeW.Close() without sending its result
ProducerWrittenNoSend ==
    /\ prod.pc = "write"
    /\ ~pipe.wpend \/ pipe.rclosed
    /\ pipe' = [pipe EXCEPT !.wpend = FALSE, !.data = <<>>, !.wclosed = seekRes.done]
    /\ prod' = [prod EXCEPT !.pc = IF seekRes.done THEN "done" ELSE "scan"]
    /\ UNCHANGED <<src, pos, sk, seekRes, sink, seekIn, arch, cz, lz, pc, call, body, obs>>

\* pipeW.Write returns: the reader took all of it, or the read end is closed;
\* after the last Write, seekToSignature returns and pipeW.Close() follows
ProducerWritten ==
    /\ prod.pc = "write"
    /\ ~pipe.wpend \/ pipe.rclosed
    /\ pipe' = [pipe EXCEPT !.wpend = FALSE, !.data = <<>>, !.wclosed = seekRes.done]
    /\ prod' = [prod EXCEPT !.pc = IF seekRes.done THEN "send" ELSE "scan"]
    /\ UNCHANGED <<src, pos, sk, seekRes, sink, seekIn, arch, cz, lz, pc, call, body, obs>>

(***************************************************************************)
(* The archives the iterator is run on                                     *)
(***************************************************************************)
MaxEntries == 2
\* archives of at most MaxCutEntries entries also come truncated, by up to MaxCut
\* bytes
MaxCutEntries == 1
MaxCut == 40

Concat(ss) ==
    LET RECURSIVE cat(_)
        cat(i) == IF i > Len(ss) THEN <<>> ELSE ss[i] \o cat(i + 1)
    IN cat(1)

\* one stored block of a raw DEFLATE stream
StoredBlock(data, final) ==
    <<IF final THEN 1 ELSE 0>> \o PutLE(Len(data), 2) \o PutLE(65535 - Len(data), 2) \o data

\* 2020-01-01 12:00:00 in the packing of main.go:67-87
DosTime == 12 * 2048
DosDate == (40 * 512) + (1 * 32) + 1

Entry(bits, method, name, payload, plain, ddsig) ==
    [bits |-> bits, method |-> method, name |-> name, payload |-> payload,
     plain |-> plain, crc |-> <<17, 34, 51, 68>>, ddsig |-> ddsig, extra |-> <<>>,
     zip64 |-> FALSE]

UsesDescriptor(e) == HasBit(e.bits, bitDataDescriptorUsed)

\* 0xFFFFFFFF, the value of a 32-bit size field whose value is in the ZIP64 record
Max4 == <<255, 255, 255, 255>>

\* the data descriptor that follows the payload of e
EntryDescriptor(e) == e.crc \o PutLE(Len(e.payload), 4) \o PutLE(Len(e.plain), 4)

\* the bytes of an entry: local file header, payload, data descriptor
EntryBytes(e) ==
    sigLocalFileHeader \o PutLE(20, 2) \o PutLE(e.bits, 2) \o PutLE(e.method, 2)
    \o PutLE(DosTime, 2) \o PutLE(DosDate, 2)
    \o (IF UsesDescriptor(e) THEN Zero4 \o Zero4 \o Zero4
        ELSE IF e.zip64 THEN e.crc \o Max4 \o Max4
        ELSE EntryDescriptor(e))
    \o PutLE(Len(e.name), 2) \o PutLE(Len(e.extra), 2) \o e.name \o e.extra
    \o e.payload
    \o (IF ~UsesDescriptor(e) THEN <<>>
        ELSE (IF e.ddsig THEN sigDataDescriptor ELSE <<>>) \o EntryDescriptor(e))

Hi == <<104, 105>>
NameA == <<97>>
NameB == <<47, 98>>
NameDir == <<100, Slash>>

Entries ==
    {Entry(0, Store, NameA, Hi, Hi, FALSE),
     Entry(0, Deflate, NameB, StoredBlock(Hi, TRUE), Hi, FALSE),
     Entry(0, Store, NameDir, <<>>, <<>>, FALSE),
     Entry(bitDataDescriptorUsed, Store, NameA, Hi, Hi, TRUE),
     Entry(bitDataDescriptorUsed, Store, NameB, <<>>, <<>>, FALSE),
     Entry(bitDataDescriptorUsed, Deflate, NameB, StoredBlock(Hi, TRUE), Hi, TRUE),
     Entry(bitDataDescriptorUsed, Store, NameDir, <<>>, <<>>, TRUE),
     Entry(bitDataDescriptorUsed, Store, NameA, Fill(max + 6), Fill(max + 6), FALSE),
     Entry(bitDataDescriptorUsed, Deflate, NameA, StoredBlock(Hi, TRUE) \o Fill(max),
           Hi, TRUE)}

CentralDirectory == sigCentralDirectoryHeader \o <<20, 0>>
Tails == {CentralDirectory, <<>>, <<74, 85, 78, 75>>}

Archives ==
    { [entries |-> es, tail |-> t, cut |-> 0] :
        es \in UNION {[1..n -> Entries] : n \in 0..MaxEntries}, t \in Tails }
    \cup
    { [entries |-> es, tail |-> CentralDirectory, cut |-> c] :
        es \in UNION {[1..n -> Entries] : n \in 0..MaxCutEntries}, c \in 1..MaxCut }

ArchiveBytes(a) ==
    LET all == Concat([i \in 1..Len(a.entries) |-> EntryBytes(a.entries[i])]) \o a.tail
    IN Take(all, Len(all) - Min2(a.cut, Len(all)))

NoArchive == [entries |-> <<>>, tail |-> <<>>, cut |-> 0]
NoSeekIn == [P |-> <<>>, sig |-> <<>>, D |-> <<>>, S |-> <<>>, tail |-> <<>>]

InitIterator ==
    /\ cz = New
    /\ lz = [once |-> FALSE, value |-> NoSeekRes]
    /\ pipe = NewPipe
    /\ prod = [pc |-> "none"]
    /\ pc = "idle"
    /\ call = Idle
    /\ body = NoBody
    /\ obs = [emitted |-> <<>>, headers |-> <<>>, failed |-> 0, ret |-> FALSE,
              sig |-> <<>>, more |-> "unread", skipped |-> {}, overlap |-> FALSE,
              reg |-> <<>>, ran |-> <<>>, seen |-> {}]
    /\ pos = 0
    /\ sk = SeekInit
    /\ seekRes = NoSeekRes
    /\ sink = <<>>

Init ==
    /\ arch \in Archives
    /\ src = ArchiveBytes(arch)
    /\ seekIn = NoSeekIn
    /\ InitIterator

Next ==
    \/ CallScan
    \/ CallClose
    \/ RunCloser
    \/ DrainStep
    \/ ClosersDone
    \/ Receive
    \/ ScanRest
    \/ CallBody
    \/ CallRead
    \/ ReadReturn
    \/ FlateFill
    \/ FlateReturn
    \/ CallAccessor
    \/ AccessorReturn
    \/ ProducerScan
    \/ ProducerWritten

Spec == Init /\ [][Next]_vars

\* The caller is free to stop between two calls.  Inside a call, and in the
\* goroutine, a step that can be taken is taken: the Go scheduler runs every
\* goroutine that is not blocked.
Fairness ==
    /\ WF_vars(RunCloser)
    /\ WF_vars(DrainStep)
    /\ WF_vars(ClosersDone)
    /\ WF_vars(Receive)
    /\ WF_vars(ScanRest)
    /\ WF_vars(ReadReturn)
    /\ WF_vars(FlateFill)
    /\ WF_vars(FlateReturn)
    /\ WF_vars(AccessorReturn)
    /\ WF_vars(ProducerScan)
    /\ WF_vars(ProducerWritten)

FairSpec == Spec /\ Fairness

(***************************************************************************)
(* Archives with encrypted entries (main.go:632-639, part_006)             *)
(***************************************************************************)
\* the 12 bytes in front of the data of an encrypted entry; the last one is the
\* high byte of the ModifiedTime of the header (main.go:636-638, part_006:77)
Header12 == Fill(CHECKSIZE - 1) \o <<(DosTime \div 256) % 256>>

\* e, encrypted with the password Right
Encrypted(e) ==
    [e EXCEPT !.bits = @ + bitEncrypted,
              !.payload = encryptAll(passwordKeys(ResetKeys, Right, 1),
                                     Header12 \o e.payload, 1, <<>>)]

EncEntries ==
    {Encrypted(Entry(0, Store, NameA, Hi, Hi, FALSE)),
     Encrypted(Entry(bitDataDescriptorUsed, Store, NameA, Hi, Hi, TRUE)),
     Encrypted(Entry(0, Deflate, NameB, StoredBlock(Hi, TRUE), Hi, FALSE)),
     Encrypted(Entry(bitDataDescriptorUsed, Deflate, NameB, StoredBlock(Hi, TRUE), Hi, TRUE)),
     Entry(0, Store, NameB, Hi, Hi, FALSE)}

EncArchives ==
    { [entries |-> es, tail |-> CentralDirectory, cut |-> 0] :
        es \in UNION {[1..n -> EncEntries] : n \in 1..MaxEntries} }

InitEnc ==
    /\ arch \in EncArchives
    /\ src = ArchiveBytes(arch)
    /\ seekIn = NoSeekIn
    /\ InitIterator

NextEnc ==
    \/ Next
    \/ RegisterPasswordHandler
    \/ TransformRound
    \/ TransformSourceRead

SpecEnc == InitEnc /\ [][NextEnc]_vars

(***************************************************************************)
(* Archives of encrypted entries whose header check more than one password *)
(* passes (part_006:74-79)                                                 *)
(***************************************************************************)
\* 12 bytes in front of the data of an entry encrypted with Right that the keys
\* of Wrong decrypt to the same check byte
HeaderBoth == <<52>> \o Tail(Header12)

\* e, encrypted with the password Right behind the 12 bytes h
EncryptedWith(h, e) ==
    [e EXCEPT !.bits = @ + bitEncrypted,
              !.payload = encryptAll(passwordKeys(ResetKeys, Right, 1),
                                     h \o e.payload, 1, <<>>)]

CheckEntries ==
    {EncryptedWith(HeaderBoth, Entry(0, Store, NameA, Hi, Hi, FALSE)),
     EncryptedWith(HeaderBoth, Entry(bitDataDescriptorUsed, Store, NameA, Hi, Hi, TRUE)),
     EncryptedWith(Header12, Entry(0, Store, NameA, Hi, Hi, FALSE)),
     EncryptedWith(Header12, Entry(bitDataDescriptorUsed, Deflate, NameB,
                                   StoredBlock(Hi, TRUE), Hi, TRUE))}

MaxCheckEntries == 1

CheckArchives ==
    { [entries |-> es, tail |-> CentralDirectory, cut |-> 0] :
        es \in UNION {[1..n -> CheckEntries] : n \in 1..MaxCheckEntries} }

InitCheck ==
    /\ arch \in CheckArchives
    /\ src = ArchiveBytes(arch)
    /\ seekIn = NoSeekIn
    /\ InitIterator

SpecCheck == InitCheck /\ [][NextEnc]_vars

(***************************************************************************)
(* Archives with entries of a method the decoder does not know, with       *)
(* directories that carry a payload, and with ZIP64 records in the extra   *)
(* field (main.go:357-374, 569-589, 641-643).                               *)
(***************************************************************************)
\* a compression method that is not in decompressors (main.go:33-36)
MethodLZMA == 14

\* the ZIP64 record: ID, size, UncompressedSize, CompressedSize (main.go:357-374)
ZIP64Record(usize, csize) == PutLE(idZIP64, 2) \o PutLE(16, 2) \o usize \o csize

\* 2^32 + 2
Big64 == <<2, 0, 0, 0, 1, 0, 0, 0>>

\* an entry without descriptor whose header sizes are 0xFFFFFFFF and whose ZIP64
\* record holds the sizes
Entry64(method, name, payload, plain, usize) ==
    [Entry(0, method, name, payload, plain, FALSE) EXCEPT
        !.zip64 = TRUE,
        !.extra = ZIP64Record(usize, U64(PutLE(Len(payload), 4)))]

MoreEntries ==
    {Entry(0, MethodLZMA, NameA, Hi, Hi, FALSE),
     Entry(bitDataDescriptorUsed, MethodLZMA, NameA, Hi, Hi, TRUE),
     Entry(0, Store, NameDir, Hi, Hi, FALSE),
     Entry(bitDataDescriptorUsed, Store, NameDir, Hi, Hi, TRUE),
     Entry64(Store, NameA, Hi, Hi, Big64),
     Entry64(Store, NameDir, Hi, Hi, Big64),
     Entry64(Deflate, NameB, StoredBlock(Hi, TRUE), Hi, U64(PutLE(2, 4))),
     Entry(0, Store, NameB, Hi, Hi, FALSE),
     Entry(0, Store, <<Slash>>, Hi, Hi, FALSE),
     Entry(0, Store, <<Slash, Slash, 97>>, Hi, Hi, FALSE),
     Entry(bitDataDescriptorUsed, Deflate, NameB, StoredBlock(Hi, TRUE), Hi, TRUE)}

MoreArchives ==
    { [entries |-> es, tail |-> CentralDirectory, cut |-> 0] :
        es \in UNION {[1..n -> MoreEntries] : n \in 1..MaxEntries} }

InitMore ==
    /\ arch \in MoreArchives
    /\ src = ArchiveBytes(arch)
    /\ seekIn = NoSeekIn
    /\ InitIterator

SpecMore == InitMore /\ [][Next]_vars

(***************************************************************************)
(* Archives with entries whose extra field holds a record that the handler  *)
(* of its ID cannot read to the end (main.go:357-374, 482-510).             *)
(***************************************************************************)
\* a ZIP64 record of 8 bytes: the UncompressedSize and no CompressedSize
ShortZIP64(usize) == PutLE(idZIP64, 2) \o PutLE(8, 2) \o usize

\* an extended timestamp with the modification time (main.go:376-425)
StampRecord == PutLE(idStamp, 2) \o PutLE(5, 2) \o <<1, 0, 0, 0, 96>>

ExtraEntries ==
    {Entry(bitDataDescriptorUsed, Store, NameA, Hi, Hi, TRUE),
     Entry(bitDataDescriptorUsed, Deflate, NameB, StoredBlock(Hi, TRUE), Hi, FALSE),
     Entry(bitDataDescriptorUsed, Store, NameDir, <<>>, <<>>, TRUE),
     Entry(0, Store, NameA, Hi, Hi, FALSE),
     [Entry(0, Store, NameB, Hi, Hi, FALSE) EXCEPT !.extra = StampRecord],
     [Entry(0, Store, NameA, Fill(headerSize + 4), Fill(headerSize + 4), FALSE)
         EXCEPT !.extra = ShortZIP64(U64(PutLE(headerSize + 4, 4)))]}

ExtraArchives ==
    { [entries |-> es, tail |-> CentralDirectory, cut |-> 0] :
        es \in UNION {[1..n -> ExtraEntries] : n \in 1..MaxEntries} }

InitExtra ==
    /\ arch \in ExtraArchives
    /\ src = ArchiveBytes(arch)
    /\ seekIn = NoSeekIn
    /\ InitIterator

SpecExtra == InitExtra /\ [][Next]_vars

(***************************************************************************)
(* The same entries, closed by the central directory, by nothing or by     *)
(* bytes that are no signature, read by a caller who uses Each(f) as well  *)
(* as Scan() (main.go:658-672): every round of the loop of Each is a call  *)
(* of scan().                                                              *)
(***************************************************************************)
EachArchives ==
    { [entries |-> es, tail |-> t, cut |-> 0] :
        es \in UNION {[1..n -> ExtraEntries] : n \in 0..MaxEntries}, t \in Tails }

InitEach ==
    /\ arch \in EachArchives
    /\ src = ArchiveBytes(arch)
    /\ seekIn = NoSeekIn
    /\ InitIterator

NextEach ==
    \/ Next
    \/ CallEach

SpecEach == InitEach /\ [][NextEach]_vars

(***************************************************************************)
(* Archives whose first entry has an extra field of records of every       *)
(* handler, of unknown IDs and of sizes that do not fit (main.go:357-510). *)
(***************************************************************************)
\* an ID that extendFieldFunc does not hold (main.go:494-499)
idOther == 39321

\* a record of the extra field: ID, the size it claims, payload
RecordSized(id, size, payload) == PutLE(id, 2) \o PutLE(size, 2) \o payload
Record(id, payload) == RecordSized(id, Len(payload), payload)

\* 32-bit Unix times of the extended timestamp
TimeM == <<1, 0, 0, 96>>
TimeA == <<2, 0, 0, 96>>
TimeC == <<3, 0, 0, 96>>

\* the 8-byte sizes of a ZIP64 record: 5 uncompressed, 2 compressed
Size5 == <<5, 0, 0, 0, 0, 0, 0, 0>>
Size2 == <<2, 0, 0, 0, 0, 0, 0, 0>>

\* extra fields of records with unknown IDs and of bytes too few for a record
OtherFields ==
    {Record(idOther, <<1, 2, 3>>),
     RecordSized(idOther, 200, <<1, 2>>),
     Record(idOther, <<>>) \o <<9, 9, 9>>,
     <<9, 9>>}

ZIP64Fields ==
    {Record(idZIP64, Size5 \o Size2),
     Record(idZIP64, Size5 \o Size2 \o <<7, 7, 7, 7>>),
     Record(idZIP64, Size5),
     Record(idZIP64, <<5, 0, 0, 0>>),
     Record(idZIP64, <<>>)}

StampFields ==
    {Record(idStamp, <<1>> \o TimeM),
     Record(idStamp, <<7>> \o TimeM \o TimeA \o TimeC),
     Record(idStamp, <<5>> \o TimeM \o TimeC),
     Record(idStamp, <<2>> \o TimeA) \o Record(idOther, <<1>>),
     Record(idStamp, <<0>>),
     Record(idStamp, <<3>> \o TimeM)}

SkippedFields ==
    {Record(idWinACL, Fill(9) \o <<1, 2>>),
     Record(idWinACL, Fill(4)),
     Record(idWinACL, <<>>),
     Record(idNewUnix, <<1, 1, 7, 1, 8>>),
     Record(idNewUnix, <<1, 4, 7, 7>>),
     Record(idNewUnix, <<>>)}

Fields == OtherFields \cup ZIP64Fields \cup StampFields \cup SkippedFields

\* a Store file with bit 3 unset whose local header carries the extra field f
FieldEntry(f) == [Entry(0, Store, NameA, Hi, Hi, FALSE) EXCEPT !.extra = f]

\* such archives also come truncated, by up to MaxFieldCut bytes
MaxFieldCut == 12

FieldArchives ==
    { [entries |-> <<FieldEntry(f)>>, tail |-> CentralDirectory, cut |-> c] :
        f \in Fields, c \in 0..MaxFieldCut }
    \cup
    { [entries |-> <<FieldEntry(f),
                     Entry(bitDataDescriptorUsed, Deflate, NameB, StoredBlock(Hi, TRUE),
                           Hi, TRUE)>>,
       tail |-> CentralDirectory, cut |-> 0] : f \in Fields }
    \cup
    { [entries |-> <<FieldEntry(Record(idStamp, <<7>> \o TimeM \o TimeA \o TimeC)),
                     FieldEntry(f)>>,
       tail |-> CentralDirectory, cut |-> 0] : f \in Fields }

InitField ==
    /\ arch \in FieldArchives
    /\ src = ArchiveBytes(arch)
    /\ seekIn = NoSeekIn
    /\ InitIterator

SpecField == InitField /\ [][Next]_vars

(***************************************************************************)
(* The scanner on its own, one byte per step, with a sink that never       *)
(* blocks (main_test.go:15-60 runs it this way).                            *)
(***************************************************************************)
MaxJunk == 2

Descriptor(crc, csize, usize) == PutLE(crc, 4) \o PutLE(csize, 4) \o PutLE(usize, 4)

Hoge == <<72, 79, 71, 69, 72, 79, 71, 69>>

\* payloads: empty, the test's payload, payloads that hold a signature-like
\* run after 12 bytes that do or do not validate, payloads around the window size
SeekPayloads ==
    {<<>>, Hoge, sigLocalFileHeader, Hoge \o sigDataDescriptor,
     Descriptor(1, 5, 5) \o sigLocalFileHeader \o <<1>>,
     Descriptor(1, 0, 0) \o sigCentralDirectoryHeader \o <<1>>,
     Fill(5) \o sigDataDescriptor \o Descriptor(1, 5, 5) \o sigLocalFileHeader,
     Fill(max + 6), Fill(max - dataDescriptorSize - sigSize),
     Fill(max - sigSize) \o sigLocalFileHeader \o Fill(3)}

SeekStreams ==
    { [P |-> p, sig |-> g, D |-> Descriptor(c, Len(p) + d, u), S |-> s, tail |-> t] :
        p \in SeekPayloads, g \in {<<>>, sigDataDescriptor},
        c \in {7, 67324752}, d \in {0, 1, 4}, u \in {0, 3},
        s \in {sigLocalFileHeader, sigCentralDirectoryHeader, <<80, 75, 5, 6>>},
        t \in {Fill(n) : n \in 0..MaxJunk} }

SeekBytes(g) == g.P \o g.sig \o g.D \o g.S \o g.tail

InitSeek ==
    /\ seekIn \in SeekStreams
    /\ src = SeekBytes(seekIn)
    /\ arch = NoArchive
    /\ InitIterator

\* one iteration of the loop of seekToSignature that gets a byte
SeekReadByte ==
    /\ ~seekRes.done
    /\ pos < Len(src)
    /\ \E r \in {SeekByte(sk, src[pos + 1])} :
          /\ sk' = SeekState(r)
          /\ sink' = sink \o r.out
          /\ seekRes' = SeekResOf(r)
    /\ pos' = pos + 1
    /\ UNCHANGED <<src, seekIn, arch, cz, lz, pipe, prod, pc, call, body, obs>>

\* the iteration in which ReadByte reports the end of the stream
SeekEOF ==
    /\ ~seekRes.done
    /\ pos = Len(src)
    /\ LET r == SeekFail(sk, "EOF")
       IN /\ sk' = SeekState(r)
          /\ sink' = sink \o r.out
          /\ seekRes' = SeekResOf(r)
    /\ UNCHANGED <<src, pos, seekIn, arch, cz, lz, pipe, prod, pc, call, body, obs>>

NextSeek == SeekReadByte \/ SeekEOF

SpecSeek == InitSeek /\ [][NextSeek]_vars

(***************************************************************************)
(* Properties of the iterator, stated on the archive it was given          *)
(***************************************************************************)
Signatures == {sigLocalFileHeader, sigCentralDirectoryHeader}

\* the name of an entry as Name() is specified to give it: less one leading '/'
EntryName(e) ==
    IF Len(e.name) > 0 /\ e.name[1] = Slash THEN Tail(e.name) ELSE e.name

ExpectedNames == [i \in 1..Len(arch.entries) |-> EntryName(arch.entries[i])]

\* the position in the stream of the first byte of entry i
EntryOffset(i) == Len(Concat([j \in 1..(i - 1) |-> EntryBytes(arch.entries[j])]))

IsDirEntry(e) == Len(e.name) > 0 /\ e.name[Len(e.name)] = Slash

Whole == arch # NoArchive /\ arch.cut = 0

\* every entry has bit 3 unset and a method the decoder knows, and the central
\* directory follows the last one
PlainArchive ==
    /\ Whole
    /\ arch.tail = CentralDirectory
    /\ \A i \in 1..Len(arch.entries) :
          /\ ~UsesDescriptor(arch.entries[i])
          /\ ~HasBit(arch.entries[i].bits, bitEncrypted)
          /\ arch.entries[i].method \in {Store, Deflate}

\* the entry the last Scan() returned true for
OnEntry == obs.ret /\ Len(obs.emitted) \in 1..Len(arch.entries)
CurrentEntry == arch.entries[Len(obs.emitted)]

\* C1: on an archive of entries without data descriptor that ends with the
\* central directory, Scan() returns true once per entry, in stream order and
\* with the name of the header, and false only after the last entry; the body
\* of a Store entry gives the payload bytes unchanged, all of them by its EOF.
C1_PlainArchive ==
    PlainArchive =>
        /\ Len(obs.emitted) <= Len(arch.entries)
        /\ obs.emitted = Take(ExpectedNames, Len(obs.emitted))
        /\ obs.failed > 0 => Len(obs.emitted) = Len(arch.entries)
        /\ obs.ret => obs.failed = 0
        /\ (OnEntry /\ body.kind = "store" /\ ~body.closed) =>
              /\ body.out = Take(CurrentEntry.payload, Len(body.out))
              /\ Len(body.out) <= Len(CurrentEntry.payload)
              /\ body.rd = "EOF" => body.out = CurrentEntry.payload

\* the second of two entries is a Store file whose body was read to its end
C1_Witness ==
    /\ PlainArchive
    /\ Len(arch.entries) = 2
    /\ OnEntry
    /\ obs.emitted = ExpectedNames
    /\ CurrentEntry.method = Store
    /\ ~IsDirEntry(CurrentEntry)
    /\ body.kind = "store"
    /\ body.rd = "EOF"
    /\ body.out = CurrentEntry.payload
    /\ Len(body.out) > 0

\* the current entry is a file with bit 3 set
OnDescriptorFile ==
    /\ OnEntry
    /\ UsesDescriptor(CurrentEntry)
    /\ ~IsDirEntry(CurrentEntry)

SizeAccessors == {"CRC32", "CompressedSize", "OriginalSize"}

\* a call of CRC32(), CompressedSize() or OriginalSize() is about to return
AccessorReturns == pc = "value" /\ call.op \in SizeAccessors /\ ~accessorWaits

\* what the descriptor written behind the payload of e says
DescriptorValue(e, op) ==
    IF op = "CRC32" THEN e.crc
    ELSE IF op = "CompressedSize" THEN PutLE(Len(e.payload), 4) \o Zero4
    ELSE PutLE(Len(e.plain), 4) \o Zero4

\* C4: for a file entry with bit 3 set whose body the caller has read to its
\* end, CRC32(), CompressedSize() and OriginalSize() return the fields of the
\* data descriptor the scanner validated, which are those written behind the
\* payload and not the zeros of the local header, and the bytes that went
\* through the pipe are the payload, CompressedSize of them.
C4_DescriptorValues ==
    (/\ OnDescriptorFile
     /\ body.kind \in {"store", "flate"}
     /\ body.rd = "EOF"
     /\ AccessorReturns
     /\ lz.value.err = "nil") =>
        /\ ~accessorResult.panic
        /\ accessorResult.val = DescriptorValue(CurrentEntry, call.op)
        /\ sink = CurrentEntry.payload
        /\ PutLE(Len(sink), 4) = lz.value.dd.CompressedSize

\* CompressedSize() returns 2 for a Store entry whose local header says 0
C4_Witness ==
    /\ OnDescriptorFile
    /\ body.kind = "store"
    /\ body.rd = "EOF"
    /\ body.out = Hi
    /\ AccessorReturns
    /\ call.op = "CompressedSize"
    /\ cz.header.CompressedSize = Zero4
    /\ accessorResult.val = PutLE(2, 4) \o Zero4

\* a call that reads the result of the goroutine is about to return: one of
\* the three accessors or Err() in the caller, bgErr() and hasNextEntry() in
\* scan()
LazyValueRead ==
    \/ /\ pc = "value"
       /\ cz[accessor[call.op]].kind = "lazy"
       /\ ~(call.op = "Err" /\ cz.err # "nil")
       /\ ~accessorWaits
    \/ /\ pc = "bgErr"
       /\ cz.bgErr.kind = "lazy"
       /\ lz.once

\* C5: in every interleaving, a call of CRC32(), CompressedSize(),
\* OriginalSize(), hasNextEntry() or bgErr() of an entry with bit 3 set returns
\* only after seekToSignature has returned and the pipe writer is closed.
C5_ValueAfterClose ==
    LazyValueRead =>
        /\ seekRes.done
        /\ pipe.wclosed
        /\ prod.pc = "done"
        /\ lz.value = seekRes

\* CRC32() of a file entry with bit 3 set is about to return
C5_Witness ==
    /\ LazyValueRead
    /\ pc = "value"
    /\ call.op = "CRC32"
    /\ OnDescriptorFile
    /\ pipe.wclosed

\* the caller is inside CRC32(), CompressedSize() or OriginalSize() of a file
\* entry with bit 3 set whose body it has read to the end of the stream
AccessorAfterBody ==
    /\ pc = "value"
    /\ call.op \in SizeAccessors
    /\ OnDescriptorFile
    /\ body.kind \in {"store", "flate"}
    /\ body.rd = "EOF"

\* C6: for an entry with data descriptor, Store or Deflate, a call of CRC32(),
\* CompressedSize() or OriginalSize() made after Body() was read to the end of
\* the stream eventually returns: the caller does not stay blocked on the
\* result while the goroutine is blocked on a write to the pipe.
C6_AccessorReturns == AccessorAfterBody ~> (pc # "value")

\* C6, as a property of states: while such a call is in progress, the caller or
\* the goroutine can take a step.  In a state that violates it the caller waits
\* in Value() for the result and the goroutine waits in pipeW.Write for a
\* reader, for ever.
C6_AccessorProgress == AccessorAfterBody => ENABLED Next

\* C8: Scan() on a finite stream returns, whatever part of the body of the
\* current entry with data descriptor was read: the closers end the pipe writes
\* of the goroutine, the goroutine sends its result and scan() receives it.
C8_ScanReturns == (call.op = "Scan") ~> (pc = "idle" /\ call.op = "none")

\* Scan() has returned behind a file with descriptor longer than the window of
\* the scanner, of which nothing was read: the goroutine was waiting in its
\* first write when Scan() was called
C8_Witness ==
    /\ pc = "idle"
    /\ obs.failed = 1
    /\ Len(obs.emitted) = 1
    /\ UsesDescriptor(arch.entries[1])
    /\ Len(arch.entries[1].payload) > max
    /\ obs.skipped = {<<1, "none">>}
    /\ prod.pc = "done"
    /\ pipe.rclosed
    /\ lz.once

\* C7: whatever the caller read of the bodies, none or a part of them
\* included, the i-th local header that Scan() parses is read right behind the
\* signature of the i-th entry, for entries with bit 3 unset and set alike; on
\* an archive closed by the central directory every entry is emitted in order
\* and the first Scan() that returns false does so behind the last one, without
\* error.
C7_SkippedBodies ==
    /\ arch # NoArchive =>
          \A i \in 1..Len(obs.headers) :
              /\ i <= Len(arch.entries)
              /\ obs.headers[i] = EntryOffset(i) + sigSize
    /\ (Whole /\ arch.tail = CentralDirectory) =>
          /\ obs.emitted = Take(ExpectedNames, Len(obs.emitted))
          /\ Len(obs.headers) = Len(obs.emitted)
          /\ obs.failed > 0 => Len(obs.emitted) = Len(arch.entries)
          /\ (pc = "idle" /\ obs.failed = 1) => cz.err = "nil"

\* a Store file without descriptor left after a read of one byte, then a file
\* with descriptor left with nothing read, then the end of the archive
C7_Witness ==
    /\ Whole
    /\ arch.tail = CentralDirectory
    /\ Len(arch.entries) = 2
    /\ ~UsesDescriptor(arch.entries[1])
    /\ ~IsDirEntry(arch.entries[1])
    /\ UsesDescriptor(arch.entries[2])
    /\ ~IsDirEntry(arch.entries[2])
    /\ obs.skipped = {<<1, "nil">>, <<2, "none">>}
    /\ obs.headers = <<EntryOffset(1) + sigSize, EntryOffset(2) + sigSize>>
    /\ obs.emitted = ExpectedNames
    /\ obs.failed = 1
    /\ pc = "idle"

\* the value Err() returns when called now, "blocked" if it would wait
ErrValue ==
    IF cz.err # "nil" THEN cz.err
    ELSE IF cz.bgErr.kind # "lazy" THEN cz.bgErr.val
    ELSE IF lz.once THEN lz.value.err
    ELSE "blocked"

\* the last Scan() read PK\x01\x02 where it expected a signature, or found
\* that the scan of the previous entry with descriptor had ended at PK\x01\x02
AtCentralDirectory ==
    \/ obs.sig = sigCentralDirectoryHeader
    \/ obs.more = "false"

\* C9: when Scan() reads PK\x01\x02 where a signature is expected, or the
\* scan for the descriptor of the previous entry ended at PK\x01\x02, Scan()
\* returns false and Err() returns nil.
C9_EndOfArchive ==
    (pc \in {"idle", "value"} /\ AtCentralDirectory) =>
        /\ ~obs.ret
        /\ ErrValue = "nil"
        /\ (pc = "value" /\ call.op = "Err") =>
              /\ ~accessorWaits
              /\ accessorResult = [panic |-> FALSE, val |-> "nil"]

\* Err() is about to return behind a file with descriptor whose scan ended at
\* the central directory
C9_Witness ==
    /\ pc = "value"
    /\ call.op = "Err"
    /\ obs.more = "false"
    /\ ~obs.ret
    /\ Len(obs.emitted) = 1
    /\ UsesDescriptor(arch.entries[1])
    /\ ~IsDirEntry(arch.entries[1])
    /\ accessorResult.val = "nil"

\* the last Scan() read four bytes where it expected a signature, and they are
\* neither PK\x03\x04 nor PK\x01\x02
AtUnknownSignature ==
    /\ Len(obs.sig) = sigSize
    /\ obs.sig \notin Signatures

\* C10: when the four bytes read where a signature is expected are neither
\* PK\x03\x04 nor PK\x01\x02, Scan() returns false and Err() returns
\* ErrLocalFileHeaderSignatureNotFound.
C10_SignatureNotFound ==
    (pc \in {"idle", "value"} /\ AtUnknownSignature) =>
        /\ ~obs.ret
        /\ ErrValue = "ErrLocalFileHeaderSignatureNotFound"
        /\ (pc = "value" /\ call.op = "Err") =>
              /\ ~accessorWaits
              /\ accessorResult =
                    [panic |-> FALSE, val |-> "ErrLocalFileHeaderSignatureNotFound"]

\* Err() is about to return behind an entry that is followed by other bytes
C10_Witness ==
    /\ pc = "value"
    /\ call.op = "Err"
    /\ AtUnknownSignature
    /\ Len(obs.emitted) = 1
    /\ ~obs.ret
    /\ accessorResult.val = "ErrLocalFileHeaderSignatureNotFound"

\* the position behind the local header of entry i: signature, fixed header,
\* name and extra field
HeaderEnd(i) ==
    EntryOffset(i) + sigSize + headerSize + Len(arch.entries[i].name)
        + Len(arch.entries[i].extra)

\* the stream ends behind the signature of entry i and before the end of its
\* local header
TruncatedInHeader(i) ==
    /\ arch # NoArchive
    /\ i \in 1..Len(arch.entries)
    /\ Len(src) >= EntryOffset(i) + sigSize
    /\ Len(src) < HeaderEnd(i)

\* the errors of scan() that say that the input ended too early
UnexpectedEndErrors ==
    {"ErrUnexpectedEOF", "ExtendFieldError", "ZIP64OriginalSizeBroken",
     "ZIP64CompressSizeBroken", "StampFlagBroken", "StampModifiedBroken",
     "StampAccessBroken", "StampCreationBroken"}

\* C11: when the stream ends behind the signature of a local header and before
\* the fixed header, the name and the extra field are complete, at any offset,
\* the Scan() of that entry returns false and leaves an error of unexpected end
\* of input: the truncation is not reported as the normal end of the archive.
C11_TruncatedHeader ==
    \A i \in 1..Len(arch.entries) :
        TruncatedInHeader(i) =>
            /\ Len(obs.emitted) < i
            /\ (pc = "idle" /\ obs.failed = 1) =>
                  /\ ~obs.ret
                  /\ cz.err \in UnexpectedEndErrors

\* every Scan() so far has parsed a local header, and none is in progress
ScansParsed ==
    /\ call.op # "Scan"
    /\ Len(obs.headers) >= 1
    /\ Len(obs.emitted) + obs.failed = Len(obs.headers)

\* the entry whose local header the last Scan() parsed
LastParsed == arch.entries[Len(obs.headers)]

\* a file entry of a method that has no decompressor
Unsupported(e) == ~IsDirEntry(e) /\ e.method \notin decompressors

\* a whole archive, closed by the central directory, of entries that are not
\* encrypted
ClearArchive ==
    /\ Whole
    /\ arch.tail = CentralDirectory
    /\ \A i \in 1..Len(arch.entries) : ~HasBit(arch.entries[i].bits, bitEncrypted)

\* the i-th local header parsed is the header of the i-th entry
HeadersInPlace ==
    /\ Len(obs.headers) <= Len(arch.entries)
    /\ \A i \in 1..Len(obs.headers) : obs.headers[i] = EntryOffset(i) + sigSize

\* C13: for a file entry whose method is neither Store nor Deflate, with bit 3
\* set or unset, Scan() returns false with the error that names the method
\* code, Body() gives a reader of zero bytes, and the next Scan() parses the
\* header of the entry that follows: the payload was passed over.
C13_UnsupportedMethod ==
    ClearArchive =>
        /\ HeadersInPlace
        /\ (ScansParsed /\ Unsupported(LastParsed)) =>
              /\ ~obs.ret
              /\ cz.err = "UnsupportedMethod"
              /\ cz.header.Method = LastParsed.method
              /\ body.kind \in {"none", "empty"}
              /\ body.out = <<>>
              /\ body.rd \in {"none", "EOF"}
        /\ \A i \in 1..Len(arch.entries) :
              (call.op # "Scan" /\ Len(obs.emitted) + obs.failed >= i) =>
                  Len(obs.headers) >= i

\* behind an entry of an unknown method with bit 3 set, whose empty body was
\* read, Scan() has stopped at a second entry of an unknown method with bit 3
\* unset
C13_Witness ==
    /\ ClearArchive
    /\ Len(arch.entries) = 2
    /\ Unsupported(arch.entries[1]) /\ UsesDescriptor(arch.entries[1])
    /\ Unsupported(arch.entries[2]) /\ ~UsesDescriptor(arch.entries[2])
    /\ ScansParsed
    /\ Len(obs.headers) = 2
    /\ obs.failed = 2
    /\ cz.err = "UnsupportedMethod"
    /\ body.kind = "empty"
    /\ body.rd = "EOF"

\* the name Name() returns ends with '/'
DecodedDir == Len(cz.name) > 0 /\ cz.name[Len(cz.name)] = Slash

\* the position behind the payload of entry i
PayloadEnd(i) == HeaderEnd(i) + Len(arch.entries[i].payload)

\* C16: when the decoded name of an entry ends with '/', Scan() returns true,
\* IsDir() is true (cz.rawFileData is nil), Body() gives zero bytes, and the
\* payload was passed over inside that Scan(): by CompressedSize bytes when bit 3
\* is unset, up to the signature behind the validated descriptor when it is set;
\* the next Scan() parses the header that follows.  After a Scan() that returned
\* true for any other entry, IsDir() is false.
C16_Directory ==
    ClearArchive =>
        /\ HeadersInPlace
        /\ ScansParsed =>
              /\ DecodedDir = (LastParsed.name # <<Slash>> /\ IsDirEntry(LastParsed))
              /\ DecodedDir =>
                    /\ obs.ret
                    /\ cz.rawFileData = "nil"
                    /\ cz.closers = <<>>
                    /\ body.kind \in {"none", "empty"}
                    /\ body.out = <<>>
                    /\ body.rd \in {"none", "EOF"}
                    /\ IF UsesDescriptor(LastParsed)
                       THEN /\ pos = EntryOffset(Len(obs.headers) + 1) + sigSize
                            /\ cz.nextSignatureAlreadyRead
                       ELSE /\ pos = PayloadEnd(Len(obs.headers))
                            /\ pos = EntryOffset(Len(obs.headers) + 1)
                            /\ ~cz.nextSignatureAlreadyRead
              /\ (obs.ret /\ ~DecodedDir) => cz.rawFileData # "nil"

\* behind a directory with a payload and bit 3 set, Scan() has returned true for
\* a directory with a payload whose bit 3 is unset, and its empty body was read
C16_Witness ==
    /\ ClearArchive
    /\ Len(arch.entries) = 2
    /\ \A i \in 1..2 : IsDirEntry(arch.entries[i]) /\ arch.entries[i].payload # <<>>
    /\ UsesDescriptor(arch.entries[1])
    /\ ~UsesDescriptor(arch.entries[2]) /\ ~arch.entries[2].zip64
    /\ ScansParsed
    /\ Len(obs.emitted) = 2
    /\ DecodedDir
    /\ body.kind = "empty"
    /\ body.rd = "EOF"

\* the two sizes of the ZIP64 record of e, which is the whole of its extra field
RecordOriginalSize(e) == Slice(e.extra, 4, 8)
RecordCompressedSize(e) == Slice(e.extra, 12, 8)

\* the last Scan() parsed an entry with bit 3 unset and a ZIP64 record
OnZIP64 == ScansParsed /\ obs.ret /\ LastParsed.zip64

\* C17: for an entry with bit 3 unset whose extra field holds a ZIP64 record,
\* OriginalSize() and CompressedSize() return the 64-bit UncompressedSize and
\* CompressedSize of the record, all eight bytes of them, and the bytes taken for
\* the body of a file, or passed over for a directory, are bounded by the
\* CompressedSize of the record and not by the 0xFFFFFFFF of the header.
C17_ZIP64Sizes ==
    ClearArchive =>
        /\ HeadersInPlace
        /\ OnZIP64 =>
              /\ cz.header.CompressedSize = Max4
              /\ cz.header.UncompressedSize = Max4
              /\ (pc = "value" /\ call.op = "OriginalSize") =>
                    /\ ~accessorResult.panic
                    /\ accessorResult.val = RecordOriginalSize(LastParsed)
              /\ (pc = "value" /\ call.op = "CompressedSize") =>
                    /\ ~accessorResult.panic
                    /\ accessorResult.val = RecordCompressedSize(LastParsed)
              /\ pos <= PayloadEnd(Len(obs.headers))
              /\ IF IsDirEntry(LastParsed)
                 THEN pos = PayloadEnd(Len(obs.headers))
                 ELSE /\ cz.rawFileData = "limited"
                      /\ pos + cz.limN = PayloadEnd(Len(obs.headers))

\* OriginalSize() is about to return 2^32 + 2 for a Store file with a ZIP64
\* record whose body of two bytes was read to its end
C17_Witness ==
    /\ ClearArchive
    /\ OnZIP64
    /\ ~IsDirEntry(LastParsed)
    /\ pc = "value"
    /\ call.op = "OriginalSize"
    /\ accessorResult.val = Big64
    /\ body.out = Hi
    /\ body.rd = "EOF"

\* the caller is inside CRC32(), CompressedSize() or OriginalSize() of a file
\* entry with bit 3 set, after the end of its body, and the scan of the goroutine
\* has ended with an error
AccessorAfterFailedScan ==
    /\ pc = "value"
    /\ call.op \in SizeAccessors
    /\ OnDescriptorFile
    /\ body.kind \in {"store", "flate"}
    /\ body.rd = "EOF"
    /\ lz.once
    /\ lz.value.err # "nil"

\* C15: when the scan of the goroutine for an entry with data descriptor ends
\* with an error before a valid boundary, a call of CRC32(), CompressedSize() or
\* OriginalSize() made after the body was read returns a value: it does not
\* panic.
C15_AccessorsAfterFailedScan == AccessorAfterFailedScan => ~accessorResult.panic

\* the last Scan() returned true for a file entry with bit 3 unset
OnBoundedFile ==
    /\ arch # NoArchive
    /\ OnEntry
    /\ call.op # "Scan"
    /\ ~UsesDescriptor(CurrentEntry)
    /\ ~IsDirEntry(CurrentEntry)

\* the stream ends inside the payload of the current entry
ShortPayload == Len(src) < PayloadEnd(Len(obs.emitted))

\* C18: for a file entry with bit 3 unset, the bytes taken from the stream by
\* the reads of the body and by the drain end at CompressedSize bytes behind the
\* header, whatever the decompressor asks for; and when the stream ends before
\* that, the body does not end with io.EOF as a complete body does.
C18_BoundedPayload ==
    OnBoundedFile =>
        /\ pos >= HeaderEnd(Len(obs.emitted))
        /\ pos <= PayloadEnd(Len(obs.emitted))
        /\ pos + cz.limN = PayloadEnd(Len(obs.emitted))
        /\ ShortPayload => body.rd # "EOF"

Reverse(s) == [i \in 1..Len(s) |-> s[Len(s) + 1 - i]]

\* the orders in which scan() and Body() register closers: pipeR.Close()
\* (main.go:614), the drain (main.go:640), r.Close() (main.go:309); r.Close()
\* alone when Body() is called after Close()
RegistrationOrders ==
    {<<>>, <<"drain">>, <<"drain", "rClose">>, <<"pipeRClose", "drain">>,
     <<"pipeRClose", "drain", "rClose">>, <<"rClose">>}

\* C19: in every Scan() and every Close(), the closers registered for the
\* current entry are called last registered first (r.Close() of the
\* decompressor, the drain of the raw payload, pipeR.Close()), each once, and
\* all of them have been called when scan() goes on to read the next signature
\* or header.
C19_FinalizersInReverse ==
    /\ cz.closers \in RegistrationOrders
    /\ obs.reg \in RegistrationOrders
    /\ Len(obs.ran) <= Len(obs.reg)
    /\ obs.ran = SubSeq(Reverse(obs.reg), 1, Len(obs.ran))
    /\ pc \in {"closers", "drain"} =>
          /\ cz.closers = obs.reg
          /\ Len(obs.ran) = Len(obs.reg) - call.i + (IF pc = "drain" THEN 1 ELSE 0)
    /\ pc \notin {"closers", "drain"} => obs.ran = Reverse(obs.reg)
    /\ pc = "bgErr" => cz.closers = <<>>

\* scan() is about to read the next signature and Close() has called r.Close(),
\* the drain and pipeR.Close(), in this order
C19_Witness ==
    /\ pc = "bgErr"
    /\ call.op = "Scan"
    /\ obs.reg = <<"pipeRClose", "drain", "rClose">>
    /\ obs.ran = <<"rClose", "drain", "pipeRClose">>
    /\ pipe.rclosed

\* a step of the caller inside Close() or Scan()
CloseStep == pc \in {"closers", "drain"} /\ pc' # pc

\* C20: when Close() returns the list of closers is empty, it stays empty until
\* scan() or Body() registers a closer, and a Close() that is entered with the
\* empty list calls no closer and changes nothing of the iterator, the stream
\* position or the pipe.
C20_CloseIdempotent ==
    [][/\ (CloseStep /\ call.op = "Close" /\ pc' = "idle") => cz'.closers = <<>>
       /\ (cz.closers = <<>> /\ cz'.closers # <<>>) =>
              \/ pc = "bgErr"
              \/ pc = "idle" /\ body.kind = "none" /\ body'.kind # "none"
       /\ (pc = "idle" /\ call'.op = "Close" /\ cz.closers = <<>>) =>
              /\ call'.i = 0
              /\ UNCHANGED <<cz, pos, pipe, sink, lz>>
       /\ (CloseStep /\ call.op = "Close" /\ obs.reg = <<>>) =>
              /\ pc' = "idle"
              /\ obs'.ran = <<>>
              /\ UNCHANGED <<cz, pos, pipe, sink, lz>>]_vars

\* a second Close() is in progress: the current entry is a file with data
\* descriptor, for which scan() registered two closers, and the list was empty
\* when this Close() was entered
C20_Witness ==
    /\ pc = "closers"
    /\ call.op = "Close"
    /\ obs.ret
    /\ cz.rawFileData = "pipe"
    /\ body.kind = "none"
    /\ obs.reg = <<>>

\* the number of Scan() calls that have returned
ScansReturned == Len(obs.emitted) + obs.failed

\* C12: when the Scan() or the body of an encrypted entry has failed with a
\* password error (no getter registered when Scan() is called, or three
\* passwords that fail the check when the body is read), with bit 3 set or
\* unset, the next Scan() parses the local header of the entry that follows.
C12_AfterPasswordError ==
    Whole =>
        /\ HeadersInPlace
        /\ \A i \in 1..Len(arch.entries) :
              (call.op # "Scan" /\ ScansReturned >= i) => Len(obs.headers) >= i

\* the current entry is encrypted and its body is read through a transform.Reader
OnEncrypted == cz.encrypted /\ cz.rawFileData # "nil"

\* C14, in each state: the decrypter of an encrypted entry has tried at most three
\* passwords and has called the getter at most three times (the first password
\* may be the one the holder remembers); a body read that fails with the
\* password error comes after three passwords that failed the check and has
\* given no byte; without a password that passed the check no byte is given.
C14_States ==
    OnEncrypted =>
        /\ cz.tr.tries <= 3
        /\ cz.tr.asked <= 3
        /\ cz.tr.asked <= cz.tr.tries + 1
        /\ cz.tr.tries <= cz.tr.asked + 1
        /\ cz.tr.rerr = "PasswordError" =>
              /\ cz.tr.tries = 3
              /\ cz.tr.first
              /\ cz.tr.complete
        /\ cz.tr.first =>
              /\ cz.tr.dst = <<>>
              /\ body.out = <<>>
              /\ body.pend = <<>>
        /\ body.rd = "PasswordError" => cz.tr.rerr = "PasswordError"

\* C14, in each step but the one in which scan() goes on to the next entry: once
\* a password has passed the check of an entry, the getter is not called and no
\* password is tried for that entry again.
C14_Steps ==
    (OnEncrypted /\ ~cz.tr.first /\ pc # "bgErr") =>
        /\ cz'.encrypted
        /\ ~cz'.tr.first
        /\ cz'.tr.asked = cz.tr.asked
        /\ cz'.tr.tries = cz.tr.tries
        /\ cz'.lastword = cz.lastword

\* C14: for one encrypted entry the decrypter tries at most three passwords and
\* calls the getter at most three times; when the third password fails the check
\* the body read fails with the password error and gives no plain byte; when a
\* password passes, no further password is asked for that entry.
C14_ThreePasswords == []C14_States /\ [][C14_Steps]_vars

\* the read of the body of an encrypted entry has failed with the password error
\* after three calls of the getter
C14_Witness ==
    /\ OnEncrypted
    /\ body.rd = "PasswordError"
    /\ cz.tr.asked = 3
    /\ cz.tr.tries = 3
    /\ body.out = <<>>

\* the step in which scan() goes on behind bgErr() and Scan() returns: the only
\* step that makes a new lazyReadResult and starts a goroutine
ScanRestStep == pc = "bgErr" /\ pc' # "bgErr"

\* C21, in each state: the result is received only after the goroutine has sent
\* it, so the channel is closed behind the one send; every call of Value() of
\* the entry has returned the same result, the one that seekToSignature returned.
C21_States ==
    /\ lz.once => (prod.pc = "done" /\ seekRes.done /\ lz.value = seekRes)
    /\ obs.seen \subseteq {lz.value}
    /\ obs.seen # {} => lz.once

\* C21, in each step: the goroutine starts to send only when seekToSignature has
\* returned, the send ends only in the one receive of Value(), which keeps the
\* result that was sent; a goroutine that has sent does nothing more, and the
\* result that was received stays as it is however many accessors are called.
C21_Steps ==
    /\ (prod.pc # "send" /\ prod'.pc = "send") => (prod.pc = "write" /\ seekRes.done)
    /\ (prod.pc = "send" /\ prod'.pc # "send") =>
          (~lz.once /\ lz'.once /\ prod'.pc = "done")
    /\ (~lz.once /\ lz'.once) =>
          /\ prod.pc = "send"
          /\ prod'.pc = "done"
          /\ lz'.value = seekRes
          /\ pc \in {"value", "bgErr"}
    /\ (lz.once /\ ~ScanRestStep) => lz' = lz
    /\ (prod.pc = "done" /\ ~ScanRestStep) => (prod' = prod /\ seekRes' = seekRes)
    /\ (ScanRestStep /\ lz' # lz) =>
          /\ prod.pc \in {"none", "done"}
          /\ prod'.pc = "scan"
          /\ ~lz'.once

\* C21: for one entry with data descriptor the goroutine sends one result, Value()
\* receives at most once however many accessors are called, every call sees the
\* same descriptor, hasNextEntry and error, and nothing is sent on the channel
\* after Value() has closed it.
C21_OneShotResult == []C21_States /\ [][C21_Steps]_vars

\* a second accessor call of a file entry with data descriptor is about to return
\* what the first one received
C21_Witness ==
    /\ OnDescriptorFile
    /\ pc = "value"
    /\ call.op = "CompressedSize"
    /\ ReadsValue
    /\ obs.seen = {lz.value}
    /\ ~lz.value.dd.isNil
    /\ prod.pc = "done"

\* the goroutine of the current entry has been started and has not finished
ProducerRunning == prod.pc \in {"scan", "write", "send"}

\* the step starts a goroutine
ProducerStarts == ScanRestStep /\ prod.pc \in {"none", "done"} /\ prod'.pc = "scan"

\* the step is one of the goroutine reading the stream
ProducerReads == prod.pc = "scan" /\ prod'.pc = "write"

\* the errors with which scan() returns behind the dispatch on bit 3 (main.go:634, 642)
BodyErrors == {"ErrPassword", "UnsupportedMethod"}

\* C22, in each state: no goroutine was started while another one had not
\* finished, and while one runs the raw data of the entry is the pipe and the
\* next scan() will wait for its result.
C22_States ==
    /\ ~obs.overlap
    /\ ProducerRunning => (cz.rawFileData = "pipe" /\ cz.bgErr.kind = "lazy")

\* C22, in each step: the Scan() that parses the local header of a file entry
\* with bit 3 set, and returns true or fails behind the header, starts one
\* goroutine, when none is running, and no other step starts one; the position of
\* the stream moves in a step of the goroutine, or in a step of the caller (scan()
\* itself, a read through the io.LimitedReader) made while no goroutine is
\* running; with the pipe as raw data the reads of the caller leave the stream
\* where it is.
C22_Steps ==
    /\ ProducerStarts <=>
          /\ ScanRestStep
          /\ Len(obs'.headers) = Len(obs.headers) + 1
          /\ HasBit(cz'.header.Bits, bitDataDescriptorUsed)
          /\ ~(Len(cz'.name) > 0 /\ cz'.name[Len(cz'.name)] = Slash)
          /\ obs'.ret \/ cz'.err \in BodyErrors
    /\ (prod' # prod /\ ~ProducerStarts) => ProducerRunning
    /\ (pos' # pos /\ ~ProducerReads) =>
          /\ ~ProducerRunning
          /\ pc = "bgErr" \/ cz.rawFileData = "limited"
    /\ (pc \in {"read", "drain"} /\ cz.rawFileData = "pipe" /\ ~ProducerReads) =>
          pos' = pos

\* C22: a Scan() onto a file entry with bit 3 set, successful or failed, starts
\* one goroutine and no other Scan() starts one; there is at most one goroutine
\* at a time; the iterator reads the stream only while none is running, and the
\* body of an entry with data descriptor is read from the pipe alone.
C22_OneProducer == []C22_States /\ [][C22_Steps]_vars

\* behind a file with data descriptor whose goroutine has finished, the Scan() of
\* a file of an unknown method with bit 3 set has failed and its goroutine is
\* reading the stream
C22_Witness ==
    /\ ClearArchive
    /\ Len(arch.entries) = 2
    /\ UsesDescriptor(arch.entries[1]) /\ ~IsDirEntry(arch.entries[1])
    /\ Unsupported(arch.entries[2]) /\ UsesDescriptor(arch.entries[2])
    /\ Len(obs.headers) = 2
    /\ cz.err = "UnsupportedMethod"
    /\ pc = "idle"
    /\ prod.pc = "write"
    /\ pos > HeaderEnd(2)

AllSlashes(s) == \A i \in 1..Len(s) : s[i] = Slash

\* C23, as stated: Name() is the name of the header less one leading '/', so
\* that "//a" is reported as "/a".
C23_OneSlashRemoved ==
    (ClearArchive /\ ScansParsed) => cz.name = EntryName(LastParsed)

\* C23, as the code has it: Name() is the name of the header less all of its
\* leading '/' characters: what is removed in front is made of '/' only, and
\* what is left does not start with '/' ("//a" is reported as "a").
C23_LeadingSlashesRemoved ==
    (ClearArchive /\ ScansParsed) =>
        LET n == LastParsed.name
            k == Len(n) - Len(cz.name)
        IN /\ k >= 0
           /\ cz.name = Drop(n, k)
           /\ AllSlashes(Take(n, k))
           /\ cz.name = <<>> \/ cz.name[1] # Slash

\* Scan() has returned true for the entry whose header name is "//a", and Name()
\* is "a"
C23_Witness ==
    /\ ClearArchive
    /\ ScansParsed
    /\ obs.ret
    /\ LastParsed.name = <<Slash, Slash, 97>>
    /\ cz.name = <<97>>

\* C24: once Scan() has returned false, at the end of the archive (PK\x01\x02) or
\* with ErrLocalFileHeaderSignatureNotFound, every later Scan() returns false,
\* emits no entry and leaves Err() with the value it had.
C24_Terminal ==
    [][(/\ ScanRestStep
        /\ ~obs.ret
        /\ obs.failed >= 1
        /\ AtCentralDirectory \/ AtUnknownSignature) =>
            /\ ~obs'.ret
            /\ obs'.emitted = obs.emitted
            /\ ErrValue' = ErrValue]_vars

\* the stream is a sequence of whole entries and nothing more: it ends where the
\* signature of a further entry would start, without central directory
EndsAtBoundary == Whole /\ arch.tail = <<>>

\* C25: when the stream ends at the boundary of an entry, with no byte where the
\* next signature would start, the Scan() behind the last entry returns false,
\* Err() is nil, and every entry of the stream has been emitted.
C25_EndAtBoundary ==
    (EndsAtBoundary /\ pc = "idle" /\ obs.failed = 1) =>
        /\ ~obs.ret
        /\ ErrValue = "nil"
        /\ obs.emitted = ExpectedNames

\* the last Scan() returned true for an entry of a whole archive, and the next
\* Scan() is about to go on behind Close() and bgErr()
NextScanStep == ScanRestStep /\ Whole /\ OnEntry /\ Len(obs.headers) = Len(obs.emitted)

\* what the scan for the descriptor of the current entry reported: a local header
\* follows (main.go:572-577 for a directory, 619-625 for a file)
ScanFoundNext ==
    IF cz.hasNextEntry.kind = "lazy" THEN lz.value.err = "nil" /\ lz.value.hasNext
    ELSE cz.hasNextEntry.val

ScanFoundEnd ==
    IF cz.hasNextEntry.kind = "lazy" THEN lz.value.err = "nil" /\ ~lz.value.hasNext
    ELSE ~cz.hasNextEntry.val

\* C26: behind an entry with bit 3 set, file or directory, whose scan ended at
\* PK\x03\x04, the next Scan() reads no signature and parses the 26 bytes that
\* start right behind that signature; behind an entry with bit 3 unset the next
\* Scan() first reads the four bytes at the end of the payload as the signature
\* (and fails when the stream has fewer); and
\* when the scan ended at PK\x01\x02 the next Scan() returns false and reads no
\* byte of the stream.
C26_SignatureOnce ==
    [][NextScanStep =>
        /\ (UsesDescriptor(CurrentEntry) /\ ScanFoundNext) =>
              /\ obs'.sig = <<>>
              /\ pos = EntryOffset(Len(obs.emitted) + 1) + sigSize
              /\ Len(obs'.headers) = Len(obs.headers) + 1
              /\ obs'.headers[Len(obs'.headers)] = pos
              /\ pos' >= pos + headerSize
        /\ ~UsesDescriptor(CurrentEntry) =>
              /\ pos = PayloadEnd(Len(obs.emitted))
              /\ obs'.sig = Slice(src, pos, sigSize)
              /\ pos' >= pos + Len(obs'.sig)
              /\ Len(src) >= pos + sigSize => Len(obs'.sig) = sigSize
              /\ Len(obs'.sig) < sigSize => ~obs'.ret
              /\ Len(obs'.headers) > Len(obs.headers) =>
                    obs'.headers[Len(obs'.headers)] = pos + sigSize
        /\ (UsesDescriptor(CurrentEntry) /\ ScanFoundEnd) =>
              /\ ~obs'.ret
              /\ pos' = pos
              /\ obs'.sig = <<>>
              /\ obs'.headers = obs.headers
              /\ cz'.err = "nil"]_vars

\* behind a directory with bit 3 set, Scan() has parsed the header of a second
\* entry without reading a signature
C26_Witness ==
    /\ Whole
    /\ Len(arch.entries) = 2
    /\ UsesDescriptor(arch.entries[1])
    /\ IsDirEntry(arch.entries[1])
    /\ pc = "idle"
    /\ obs.ret
    /\ Len(obs.emitted) = 2
    /\ obs.sig = <<>>
    /\ obs.headers = <<sigSize, EntryOffset(2) + sigSize>>

\* the four bytes in front of position p of the stream are PK\x03\x04
BehindSignature(p) == p >= sigSize /\ SubSeq(src, p - sigSize + 1, p) = sigLocalFileHeader

\* C27: after any sequence of Scan() calls, those that failed in a header, a name
\* or an extra field included, every local header that scan() has parsed was read
\* at a position of the stream that stands right behind the bytes PK\x03\x04.
C27_HeadersBehindSignature ==
    \A i \in 1..Len(obs.headers) : BehindSignature(obs.headers[i])


(***************************************************************************)
(* The accessors of an entry without data descriptor (main.go:543-553)     *)
(***************************************************************************)
\* the last Scan() returned true for an entry with bit 3 unset whose sizes are
\* in its local header
OnHeaderEntry ==
    /\ arch # NoArchive
    /\ OnEntry
    /\ call.op # "Scan"
    /\ ~UsesDescriptor(CurrentEntry)
    /\ ~CurrentEntry.zip64

\* the entry before the current one has bit 3 set
BehindDescriptorEntry ==
    /\ Len(obs.emitted) >= 2
    /\ UsesDescriptor(arch.entries[Len(obs.emitted) - 1])

\* C28: for an entry with bit 3 unset and no ZIP64 record, CRC32(),
\* CompressedSize() and OriginalSize() return the fields of its local header
\* without waiting, before the body is read as well as after; behind an entry
\* with data descriptor they report the header of the new entry, and the
\* background error and the hasNext flag are the constants nil and true again
\* and not the results of the previous entry's goroutine.
C28_HeaderValues ==
    OnHeaderEntry =>
        /\ cz.bgErr = Const("nil")
        /\ cz.hasNextEntry = Const(TRUE)
        /\ pc = "value" =>
              /\ ~accessorWaits
              /\ ~accessorResult.panic
              /\ call.op \in SizeAccessors =>
                    accessorResult.val = DescriptorValue(CurrentEntry, call.op)
              /\ call.op = "Err" => accessorResult.val = "nil"

\* behind a Deflate entry whose descriptor says 7 compressed bytes,
\* CompressedSize() of a Store entry returns the 2 of its header before the
\* body was asked for, while the result of the previous goroutine is still there
C28_Witness ==
    /\ OnHeaderEntry
    /\ BehindDescriptorEntry
    /\ body.kind = "none"
    /\ pc = "value"
    /\ call.op = "CompressedSize"
    /\ accessorResult.val = PutLE(2, 4) \o Zero4
    /\ lz.once
    /\ lz.value.dd.CompressedSize = PutLE(7, 4)


(***************************************************************************)
(* The password holder (main.go:182-200, part_006:62-82)                   *)
(***************************************************************************)
\* the password pwd passes the header check of entry e: the 12th byte decrypted
\* from the payload with the keys of pwd is the high byte of the ModifiedTime
PassesCheck(pwd, e) ==
    /\ HasBit(e.bits, bitEncrypted)
    /\ Len(e.payload) >= CHECKSIZE
    /\ decryptAll(passwordKeys(ResetKeys, pwd, 1), Take(e.payload, CHECKSIZE),
                  1, <<>>).out[CHECKSIZE] = (DosTime \div 256) % 256

\* the holder remembers a password that passes the check of no entry of the archive
RemembersFailed ==
    /\ cz.lastword # <<>>
    /\ \A i \in 1..Len(arch.entries) : ~PassesCheck(cz.lastword, arch.entries[i])

\* the decrypter of the current entry tries its passwords in this step
TriesPasswords == OnEncrypted /\ cz.tr.first /\ cz'.tr.tries > cz.tr.tries

\* C29, in each state: the password the holder remembers, if any, has passed
\* the header check of an entry.
C29_States == ~RemembersFailed

\* C29, in each step in which a decrypter tries its passwords: a password that
\* is tried without a call of the getter is a remembered one that had passed a
\* check; and when the remembered password passes the check of this entry, the
\* getter is not called at all and the password stays remembered.
C29_Steps ==
    TriesPasswords =>
        /\ (cz'.tr.tries - cz.tr.tries > cz'.tr.asked - cz.tr.asked) =>
              ~RemembersFailed
        /\ (cz.lastword # <<>> /\ PassesCheck(cz.lastword, CurrentEntry)) =>
              /\ cz'.tr.asked = cz.tr.asked
              /\ cz'.tr.tries = cz.tr.tries + 1
              /\ ~cz'.tr.first
              /\ cz'.lastword = cz.lastword

\* C29: the password holder remembers only a password that passed a header
\* check: a password that failed is not tried on a later entry unless the getter
\* returned it again, and an entry that the remembered password opens calls the
\* getter zero times.
C29_RememberedPassword == []C29_States /\ [][C29_Steps]_vars


(***************************************************************************)
(* The header check of an encrypted entry (part_006:56-96, main.go:632-638) *)
(***************************************************************************)
\* the last Scan() returned true for an encrypted entry of the archive, whose
\* header it parsed where the entry stands
OnCheckedEntry ==
    /\ OnEntry
    /\ OnEncrypted
    /\ HasBit(CurrentEntry.bits, bitEncrypted)
    /\ Len(obs.headers) = Len(obs.emitted)
    /\ obs.headers[Len(obs.headers)] = EntryOffset(Len(obs.emitted)) + sigSize

\* what the keys of pwd make of the ciphertext of e behind its first 12 bytes
Decrypted(pwd, e) ==
    Drop(decryptAll(passwordKeys(ResetKeys, pwd, 1), e.payload, 1, <<>>).out, CHECKSIZE)

\* C30, in each state: before a password is accepted the body has given nothing;
\* the accepted password is one whose 12th decrypted byte is the high byte of
\* the ModifiedTime of the header; the bytes an open Store body gives are the
\* decryption of the ciphertext behind its first 12 bytes, and at its end there
\* are 12 fewer of them than bytes of ciphertext.
C30_States ==
    OnCheckedEntry =>
        /\ cz.tr.check = DosTime
        /\ cz.tr.first => (cz.tr.dst = <<>> /\ body.out = <<>>)
        /\ ~cz.tr.first => PassesCheck(cz.lastword, CurrentEntry)
        /\ (~cz.tr.first /\ body.kind = "store" /\ ~body.closed) =>
              /\ body.out = Take(Decrypted(cz.lastword, CurrentEntry), Len(body.out))
              /\ body.rd = "EOF" =>
                    /\ body.out = Decrypted(cz.lastword, CurrentEntry)
                    /\ Len(body.out) = Len(CurrentEntry.payload) - CHECKSIZE

\* C30, in each step in which the decrypter tries passwords: it accepts the last
\* one it tried exactly when that one passes the check, whatever it decrypts
\* the data to.
C30_Steps ==
    (OnCheckedEntry /\ TriesPasswords) =>
        (~cz'.tr.first <=> PassesCheck(cz'.lastword, CurrentEntry))

\* C30: a password is accepted exactly when the 12th byte it decrypts is the high
\* byte of the DOS ModifiedTime of the header, the CRC-32 having no part in it;
\* the first 12 bytes of ciphertext give no output and the body is the
\* decryption of the bytes behind them, 12 fewer than the ciphertext.
C30_CheckByte == []C30_States /\ [][C30_Steps]_vars

\* a password the archive was not encrypted with has passed the check, and the
\* Store body was read to its end: two bytes that are not the data
C30_Witness ==
    /\ OnCheckedEntry
    /\ ~cz.tr.first
    /\ cz.lastword = Wrong
    /\ body.kind = "store"
    /\ ~body.closed
    /\ body.rd = "EOF"
    /\ Len(body.out) = 2
    /\ body.out # Hi
    /\ Len(CurrentEntry.payload) = CHECKSIZE + 2


(***************************************************************************)
(* The key registers of the decrypter (part_006:29-52, 62-82)              *)
(***************************************************************************)
\* the bytes of cz.rawFileData that the transform.Reader has read so far
SourceTaken ==
    IF cz.rawFileData = "limited" THEN Len(CurrentEntry.payload) - cz.limN
    ELSE Len(sink)

\* the registers after the password pwd and the first n bytes of the ciphertext
\* of e, counted from the constants of Reset
KeysAfter(pwd, e, n) ==
    decryptAll(passwordKeys(ResetKeys, pwd, 1), Take(e.payload, n), 1, <<>>).key

\* a 32-bit register: four bytes
Register(x) == Len(x) = 4 /\ \A i \in 1..4 : x[i] \in 0..255

\* C31: every password is tried from the registers 0x12345678, 0x23456789,
\* 0x34567890: while no password is accepted, also after attempts that failed,
\* the registers hold these constants; once one is accepted, after any number
\* of failed attempts, the registers are those that the accepted password and
\* the ciphertext decrypted so far give from the constants, so that the check
\* and the plain bytes depend on that password and the ciphertext only; each
\* register stays within 32 bits.
C31_KeysFromReset ==
    OnCheckedEntry =>
        /\ Len(cz.tr.key) = 3
        /\ \A i \in 1..3 : Register(cz.tr.key[i])
        /\ cz.tr.first => cz.tr.key = ResetKeys
        /\ ~cz.tr.first =>
              /\ SourceTaken - Len(cz.tr.src) >= CHECKSIZE
              /\ cz.tr.key = KeysAfter(cz.lastword, CurrentEntry,
                                       SourceTaken - Len(cz.tr.src))
              /\ (body.kind = "store" /\ ~body.closed) =>
                    body.out \o cz.tr.dst
                        = Take(Decrypted(cz.lastword, CurrentEntry),
                               SourceTaken - Len(cz.tr.src) - CHECKSIZE)

\* the third password of an entry has passed the check behind two that failed,
\* and the Store body has given the data that were encrypted
C31_Witness ==
    /\ OnCheckedEntry
    /\ ~cz.tr.first
    /\ cz.tr.tries = 3
    /\ cz.tr.asked = 3
    /\ cz.lastword = Right
    /\ body.kind = "store"
    /\ ~body.closed
    /\ body.out = Hi


(***************************************************************************)
(* The extra field (main.go:478-510)                                       *)
(***************************************************************************)
\* this step is the return of a Scan() that parsed a local header
ParsedNow == ScanRestStep /\ Len(obs'.headers) = Len(obs.headers) + 1

\* the entry whose header it parsed, where the archive has it
ParsedEntry == arch.entries[Len(obs'.headers)]
ParsedInPlace ==
    /\ Len(obs'.headers) <= Len(arch.entries)
    /\ obs'.headers[Len(obs'.headers)] = EntryOffset(Len(obs'.headers)) + sigSize

\* a Scan() returns that parsed the header of a file with bit 3 unset: scan()
\* reads nothing behind the extra field of such an entry
ParsedBoundedFile ==
    /\ ParsedNow
    /\ ParsedInPlace
    /\ ~UsesDescriptor(ParsedEntry)
    /\ ~IsDirEntry(ParsedEntry)

\* the sizes, the CRC-32 and the times of the entry are those of its local header
FromHeaderOnly(c) ==
    /\ c.originalSize = FromHeader
    /\ c.compressedSize = FromHeader
    /\ c.crc32 = FromHeader
    /\ c.LastModificationTime = stamp(c.header)
    /\ c.LastAccessTime = stamp(c.header)
    /\ c.CreationTime = stamp(c.header)

\* C32, in each step in which Scan() returns behind the header of a file with
\* bit 3 unset: whatever the records of the extra field claim, the stream
\* position is not behind the end of the extra field; when Scan() returns true
\* it is at that end; and a field of unknown records and of fewer than 4 bytes
\* leaves the entry as its header gives it and, when the stream holds all of it,
\* is passed over without error.
C32_Steps ==
    ParsedBoundedFile =>
        /\ pos' <= HeaderEnd(Len(obs'.headers))
        /\ obs'.ret => pos' = HeaderEnd(Len(obs'.headers))
        /\ ParsedEntry.extra \in OtherFields =>
              /\ Len(src) >= HeaderEnd(Len(obs'.headers)) => obs'.ret
              /\ FromHeaderOnly(cz')

\* C32: the parser of the extra field never takes a byte of the stream from
\* behind the extraFieldLength bytes, has taken all of them when it returns
\* without error, changes nothing for records of unknown IDs and discards a
\* rest of fewer than 4 bytes without error.
C32_ExtraFieldRegion == [][C32_Steps]_vars


(***************************************************************************)
(* The ZIP64 record (main.go:357-374)                                      *)
(***************************************************************************)
\* a Scan() returns that parsed, on a stream that holds all of it, the header of
\* a file with bit 3 unset whose extra field is one of fs
ParsedField(fs) ==
    /\ ParsedBoundedFile
    /\ ParsedEntry.extra \in fs
    /\ Len(src) >= HeaderEnd(Len(obs'.headers))

\* the payload of the first record of the extra field f
RecordPayload(f) == Take(Drop(f, 4), LE(f, 2, 2))

\* C33, in each step in which Scan() returns behind a header whose extra field
\* is a ZIP64 record: Scan() does not fail for a payload of fewer than 16 bytes;
\* the uncompressed size is the first 8 bytes of the payload when it has them, the
\* compressed size the next 8 when it has them; a size that is not there keeps
\* the value of the header, and what follows the first 16 bytes changes nothing.
C33_Steps ==
    ParsedField(ZIP64Fields) =>
        LET pl == RecordPayload(ParsedEntry.extra)
        IN /\ obs'.ret
           /\ pos' = HeaderEnd(Len(obs'.headers))
           /\ cz'.originalSize = IF Len(pl) >= 8 THEN Const(Take(pl, 8)) ELSE FromHeader
           /\ cz'.compressedSize = IF Len(pl) >= 16 THEN Const(Slice(pl, 8, 8))
                                   ELSE FromHeader
           /\ cz'.crc32 = FromHeader

\* C33: a ZIP64 record with a payload of fewer than 16 bytes is tolerated, the
\* sizes it holds are taken and the others stay those of the header; the bytes
\* behind the first 16 are ignored.
C33_ShortZIP64 == [][C33_Steps]_vars


(***************************************************************************)
(* The records that are skipped (main.go:416-462)                          *)
(***************************************************************************)
\* C34, in each step in which Scan() returns behind a header whose extra field
\* is an NTFS ACL record or an Info-ZIP Unix New record: Scan() does not fail,
\* whatever the size and the payload of the record, the record is passed over,
\* and the sizes, the CRC-32 and the three times are those of the header.
C34_Steps ==
    ParsedField(SkippedFields) =>
        /\ obs'.ret
        /\ pos' = HeaderEnd(Len(obs'.headers))
        /\ FromHeaderOnly(cz')

\* C34: an NTFS ACL record or an Info-ZIP Unix New record of any size and
\* payload is skipped: Scan() does not fail for it and the entry keeps the
\* sizes, the CRC-32 and the times of its header.
C34_SkippedRecords == [][C34_Steps]_vars


(***************************************************************************)
(* The three times of an entry (main.go:70-87, 386-414, 551-553)           *)
(***************************************************************************)
\* the DOS time and date every header of the model carries: 2020-01-01 12:00:00
HeaderTime ==
    [kind |-> "dos", year |-> 2020, month |-> 1, day |-> 1, hour |-> 12, min |-> 0,
     sec |-> 0]

\* the extra field f starts with an extended timestamp record
StartsWithStamp(f) == Len(f) >= 5 /\ LE(f, 0, 2) = idStamp

\* the time with flag bit b (0, 1, 2) of an entry whose extra field is f: the
\* 32-bit value behind the flag byte and the values of the lower bits that are
\* set, or the time of the header
ExpectedTime(f, b) ==
    LET flag == f[5]
        before == Cardinality({k \in 0..(b - 1) : HasBit(flag, 2 ^ k)})
    IN IF StartsWithStamp(f) /\ HasBit(flag, 2 ^ b)
       THEN UnixTime(Slice(f, 5 + (4 * before), 4))
       ELSE HeaderTime

\* the last Scan() returned true for the entry whose header it parsed in place
OnParsedEntry ==
    /\ OnEntry
    /\ call.op # "Scan"
    /\ Len(obs.headers) = Len(obs.emitted)
    /\ obs.headers[Len(obs.headers)] = EntryOffset(Len(obs.emitted)) + sigSize

\* C35: when Scan() has returned true, LastModificationTime, LastAccessTime and
\* CreationTime are each the time decoded from the DOS date and time of the
\* header of the entry, unless an extended timestamp record sets the flag bit
\* 0, 1 or 2 of that time: then it is the 32-bit Unix time of the record, the
\* values standing in the order modification, access, creation.  Nothing is
\* left of the times of the entry before.
C35_Timestamps ==
    OnParsedEntry =>
        /\ cz.LastModificationTime = ExpectedTime(CurrentEntry.extra, 0)
        /\ cz.LastAccessTime = ExpectedTime(CurrentEntry.extra, 1)
        /\ cz.CreationTime = ExpectedTime(CurrentEntry.extra, 2)

\* behind an entry whose record set all three times, the record of the second
\* entry sets the access time only
C35_Witness ==
    /\ OnParsedEntry
    /\ Len(obs.emitted) = 2
    /\ StartsWithStamp(arch.entries[1].extra)
    /\ arch.entries[1].extra[5] = 7
    /\ CurrentEntry.extra = Record(idStamp, <<2>> \o TimeA) \o Record(idOther, <<1>>)
    /\ cz.LastModificationTime = HeaderTime
    /\ cz.LastAccessTime = UnixTime(TimeA)
    /\ cz.CreationTime = HeaderTime

(***************************************************************************)
(* Properties of seekToSignature, stated on the bytes of the stream        *)
(***************************************************************************)
\* s[k-3..k] is a header signature, and the CompressedSize of the 12 bytes
\* before it is the number of bytes before these 16
PlainBoundaryAt(s, k) ==
    /\ k >= sigSize + dataDescriptorSize
    /\ SubSeq(s, k - 3, k) \in Signatures
    /\ SubSeq(s, k - 11, k - 8) = PutLE(k - 16, 4)

\* the same with PK\x07\x08 before the 12 bytes, which does not count
SignedBoundaryAt(s, k) ==
    /\ k >= min
    /\ SubSeq(s, k - 3, k) \in Signatures
    /\ SubSeq(s, k - 11, k - 8) = PutLE(k - 20, 4)
    /\ SubSeq(s, k - 19, k - 16) = sigDataDescriptor

BoundaryAt(s, k) == PlainBoundaryAt(s, k) \/ SignedBoundaryAt(s, k)

TrailerAt(s, k) ==
    IF PlainBoundaryAt(s, k) THEN sigSize + dataDescriptorSize ELSE min

SeekSucceeded == seekRes.done /\ seekRes.err = "nil"

\* the end of D ++ S in the stream P ++ sig ++ D ++ S ++ tail
SeekEnd(g) == Len(g.P) + Len(g.sig) + dataDescriptorSize + sigSize

\* the stream of C2: D carries CompressedSize = Len(P), S is a header
\* signature, and no boundary validates before the end of S
SeekWellFormed ==
    /\ seekIn # NoSeekIn
    /\ SubSeq(seekIn.D, 5, 8) = PutLE(Len(seekIn.P), 4)
    /\ seekIn.S \in Signatures
    /\ \A k \in 1..(SeekEnd(seekIn) - 1) : ~BoundaryAt(src, k)

\* C2: on P ++ [PK\x07\x08] ++ D ++ S with CompressedSize(D) = Len(P) and no
\* earlier valid boundary, seekToSignature returns when it has read S, not
\* before, having written exactly P; it returns true for PK\x03\x04 and false
\* for PK\x01\x02, the three fields of D, and no error.
C2_SeekRoundTrip ==
    SeekWellFormed =>
        /\ pos < SeekEnd(seekIn) => ~seekRes.done
        /\ pos >= SeekEnd(seekIn) =>
              /\ pos = SeekEnd(seekIn)
              /\ SeekSucceeded
              /\ sink = seekIn.P
              /\ seekRes.hasNext = (seekIn.S = sigLocalFileHeader)
              /\ ~seekRes.dd.isNil
              /\ seekRes.dd.CRC32 \o seekRes.dd.CompressedSize
                    \o seekRes.dd.UncompressedSize = seekIn.D

\* the stream of the repository's tests with the signature of the descriptor,
\* read to the end of PK\x03\x04
C2_Witness ==
    /\ SeekWellFormed
    /\ seekIn.P = Hoge
    /\ seekIn.sig = sigDataDescriptor
    /\ seekIn.S = sigLocalFileHeader
    /\ seekRes.done
    /\ seekRes.hasNext
    /\ sink = Hoge

\* C3: seekToSignature succeeds only where the last 4 bytes read are
\* PK\x03\x04 or PK\x01\x02 and the 12 bytes before them carry a CompressedSize
\* equal to the bytes read before the trailer (count-16, or count-20 behind
\* PK\x07\x08); it never reads past such a position, so it stops at the
\* earliest one; and everything before the trailer, signature-like runs with a
\* size that does not match included, has gone to the sink.
C3_EarliestValidBoundary ==
    /\ seekIn # NoSeekIn =>
          \A k \in 1..pos : BoundaryAt(src, k) => (k = pos /\ SeekSucceeded)
    /\ (seekIn # NoSeekIn /\ SeekSucceeded) =>
          /\ BoundaryAt(src, pos)
          /\ sink = Take(src, pos - TrailerAt(src, pos))
          /\ seekRes.hasNext = (SubSeq(src, pos - 3, pos) = sigLocalFileHeader)

\* a success behind a signature-like run that went to the sink as payload
C3_Witness ==
    /\ seekIn # NoSeekIn
    /\ SeekSucceeded
    /\ \E j \in sigSize..Len(sink) : SubSeq(sink, j - 3, j) \in Signatures

\* seekToSignature has returned the error of ReadByte
SeekFailed == seekRes.done /\ seekRes.err # "nil"

\* C36: when the source ends before a valid boundary was found, seekToSignature
\* has written every byte it read to the sink, those still in its window
\* included and in the order of the source, and returns false, a nil descriptor
\* and the error of the source; whenever it returns, its descriptor is not nil
\* exactly when its error is nil.
C36_FlushOnError ==
    seekIn # NoSeekIn =>
        /\ SeekFailed =>
              /\ pos = Len(src)
              /\ sink = src
              /\ ~seekRes.hasNext
              /\ seekRes.dd.isNil
              /\ seekRes.err = "EOF"
        /\ seekRes.done => (~seekRes.dd.isNil <=> seekRes.err = "nil")

\* the source has ended behind more bytes than the window holds, with bytes in
\* the window that had not been written before
C36_Witness ==
    /\ seekIn # NoSeekIn
    /\ SeekFailed
    /\ Len(src) > max
    /\ sk.buffer # <<>>
    /\ Len(sk.buffer) < Len(src)
    /\ sink = src

\* seekToSignature is in its loop
Seeking == seekIn # NoSeekIn /\ ~seekRes.done

\* this iteration of the loop wrote the front of a full window and went on
CapacityFlush == Seeking /\ ~seekRes'.done /\ sink' # sink

\* C37, between the iterations of the loop: the bytes written and the bytes in
\* the window are together the bytes read; the window holds no more than 100
\* bytes; the sink holds bytes of the source in their order, none twice: it is a
\* prefix of the bytes read.
C37_States ==
    seekIn # NoSeekIn =>
        /\ sink = Take(src, Len(sink))
        /\ Len(sink) <= pos
        /\ Seeking =>
              /\ Len(sink) + Len(sk.buffer) = pos
              /\ sk.count = pos
              /\ Len(sk.buffer) <= max
              /\ sk.buffer = SubSeq(src, Len(sink) + 1, pos)

\* the window behind a flush is the last n bytes read
WindowIsLast(n) ==
    /\ Len(sk'.buffer) = n
    /\ sk'.buffer = SubSeq(src, pos' - n + 1, pos')

\* C37 as it is stated: behind a capacity flush the window holds the last 24
\* bytes read.
C37_Window24 == []C37_States /\ [][CapacityFlush => WindowIsLast(24)]_vars

\* C37: at every step of seekToSignature the bytes written and the bytes in the
\* window are the bytes read, the window never holds more than 100 bytes, the
\* sink is a prefix of the bytes read, and behind a capacity flush the window
\* holds the last sigSize + dataDescriptorSize + sigSize = 20 bytes read.
C37_Window == []C37_States /\ [][CapacityFlush => WindowIsLast(min)]_vars

\* the window was full for the first time: 80 bytes are written and 20 are kept
C37_Witness ==
    /\ Seeking
    /\ pos = max
    /\ Len(sink) = max - min
    /\ Len(sk.buffer) = min
    /\ min = 20

(***************************************************************************)
(* Each(f) and the loop of Scan() (main.go:647-672)                        *)
(***************************************************************************)
\* the loop of Each stops: scan() has failed, with io.EOF or with an error
EachStops ==
    /\ call.op = "Each"
    /\ pc = "bgErr"
    /\ pc' = "idle"
    /\ ~obs'.ret

\* C38, in each step in which the loop of Each stops: cz.err, which Err()
\* returns when it is not nil, is what Scan() would have stored for the same
\* result of scan(); it is nil when scan() ended with io.EOF.  Both loops call
\* the same scan(), which does not read cz.err, so they visit the same entries.
C38_Steps ==
    EachStops => cz'.err = ScanErr(scan(cz, pos).err)

\* C38: from any state of the decoder, also behind a Scan() that failed,
\* Each(f) with f always true leaves Err() with the value that the loop
\* "for cz.Scan() { f(cz) }" leaves, and with nil when the archive ended.
C38_EachAsScanLoop == [][C38_Steps]_vars

\* the same for a decoder none of whose earlier calls of Scan() or rounds of
\* Each has failed
C38_FreshSteps ==
    (EachStops /\ obs.failed = 0) => cz'.err = ScanErr(scan(cz, pos).err)

C38_EachAsScanLoopFresh == [][C38_FreshSteps]_vars

(***************************************************************************)
(* The goroutine of an entry that the caller closes (main.go:512-518,      *)
(* 594-626)                                                                *)
(***************************************************************************)
\* Close() has returned on an entry that Scan() emitted, whose header has
\* bit 3 set and for which scan() has started the goroutine
ClosedOnDescriptorEntry ==
    /\ pc = "idle"
    /\ body.closed
    /\ obs.ret
    /\ HasBit(cz.header.Bits, bitDataDescriptorUsed)
    /\ cz.bgErr.kind = "lazy"

\* the caller is in a call of Scan(), Err() or an accessor of the descriptor
LaterCall == call.op \in {"Scan"} \cup DOMAIN accessor

\* the goroutine of the entry has returned
ProducerDone == prod.pc = "done"

\* C39: when the caller has called Close() on an entry with a data descriptor
\* and calls neither Scan() nor Err() nor an accessor afterwards, the goroutine
\* of the entry terminates: it stays neither in the write to the pipe nor in
\* the send of its result.
C39_ProducerTerminates == ClosedOnDescriptorEntry ~> (ProducerDone \/ LaterCall)

\* the goroutine does not stay in the write to the pipe
C39_LeavesPipeWrite == ClosedOnDescriptorEntry ~> (prod.pc \in {"send", "done"} \/ LaterCall)

====
